---- MODULE Spec2Model ----
(***************************************************************************)
(* A model of the runtime reconciliation and delivery engine of            *)
(* f5-telemetry-streaming: the Event Listener module (EventListener,       *)
(* ReceiversManager and the configWorker 'change' handler), the Stream     *)
(* Framer that feeds it, the Delivery Pipeline it hands records to, and    *)
(* the Consumer Registry (consumers.js).                                   *)
(*                                                                         *)
(* Modules of the repository that the Event Listener only calls            *)
(* (messageStream, config worker, promise utilities, dataPipeline,         *)
(* tracerManager, utils/config) are modelled from the specification and    *)
(* say so where they are defined.                                          *)
(***************************************************************************)
EXTENDS Integers, Sequences, FiniteSets, TLC

VARIABLES
    config,      \* the Declared Topology last delivered: listener name -> Listener Spec
    instances,   \* EventListener.instances: listener name -> EventListener object
    registered,  \* ReceiversManager.registered: port -> MessageStream object id
    recv,        \* the MessageStream objects: object id -> receiver
    phase,       \* where the 'change' handler's promise chain stands
    log,         \* what the running pass has logged: the listeners its synchronous
                 \* part created, the ports whose binds failed, its final report
    queued,      \* configuration-change events waiting for the running pass
    active,      \* number of passes started and not yet completed
    pipe,        \* the Delivery Pipeline invocation in progress
    flt,         \* one use of buildFilterFunc: the config, the function, a record
    listener,    \* the EventListener object whose onMessagesHandler is followed
    arrived,     \* the batches of event strings the listener was given, in order
    calls,       \* the dataPipeline.process calls the listener has started, in order
    returned,    \* per batch, the promise onMessagesHandler returned
    stream,      \* the bytes a connection has still to deliver
    chunks,      \* the chunks the Stream Framer was given, in order
    buffer,      \* the partial line the Stream Framer retains
    emitted,     \* the complete events the Stream Framer has emitted, in order
    CONSUMERS,   \* consumers.js: the published Consumer Instances, by id
    moduleCache, \* the consumer types whose plugin module the module loader holds
    reload,      \* the run of the consumers' 'change' handler: its stage, the
                 \* specs delivered, typesBefore, the load promises, and what
                 \* it found published and what it unloaded
    azure,       \* one call of the Azure_Log_Analytics consumer: its requests
                 \* and the promise it returned
    decl,        \* a declaration given to the validator, and the verdict
    cleaner,     \* scripts/outputExampleCleaner.js: the Output object's
                 \* inputData and how far clean() has come
    worker,      \* the stats RestWorker: the GET requests and their responses
    runs         \* consumers.js: the runs of the 'change' handler that are
                 \* under way together, in the order their events came

recVars == <<config, instances, registered, recv, phase, log, queued, active>>

fltVars == <<flt>>

ingVars == <<listener, arrived, calls, returned>>

frmVars == <<stream, chunks, buffer, emitted>>

conVars == <<CONSUMERS, moduleCache, reload>>

plgVars == <<azure>>

valVars == <<decl>>

clnVars == <<cleaner>>

wrkVars == <<worker>>

ovlVars == <<runs>>

vars == <<recVars, pipe, fltVars, ingVars, frmVars, conVars, plgVars, valVars, clnVars, wrkVars, ovlVars>>

\* what the parts of the model leave alone
notRec ==
    <<pipe, fltVars, ingVars, frmVars, conVars, plgVars, valVars, clnVars, wrkVars, ovlVars>>

notPipe ==
    <<recVars, fltVars, ingVars, frmVars, conVars, plgVars, valVars, clnVars, wrkVars, ovlVars>>

notFlt ==
    <<recVars, pipe, ingVars, frmVars, conVars, plgVars, valVars, clnVars, wrkVars, ovlVars>>

notIng ==
    <<recVars, pipe, fltVars, frmVars, conVars, plgVars, valVars, clnVars, wrkVars, ovlVars>>

notFrm ==
    <<recVars, pipe, fltVars, ingVars, conVars, plgVars, valVars, clnVars, wrkVars, ovlVars>>

notCon ==
    <<recVars, pipe, fltVars, ingVars, frmVars, plgVars, valVars, clnVars, wrkVars, ovlVars>>

notPlg ==
    <<recVars, pipe, fltVars, ingVars, frmVars, conVars, valVars, clnVars, wrkVars, ovlVars>>

notVal ==
    <<recVars, pipe, fltVars, ingVars, frmVars, conVars, plgVars, clnVars, wrkVars, ovlVars>>

notCln ==
    <<recVars, pipe, fltVars, ingVars, frmVars, conVars, plgVars, valVars, wrkVars, ovlVars>>

notWrk ==
    <<recVars, pipe, fltVars, ingVars, frmVars, conVars, plgVars, valVars, clnVars, ovlVars>>

\* what the runs under way together leave alone, the consumers' variables apart
notOvl ==
    <<recVars, pipe, fltVars, ingVars, frmVars, plgVars, valVars, clnVars, wrkVars>>

(***************************************************************************)
(* Bounds of the model                                                     *)
(***************************************************************************)
MaxQueue == 1
MaxObj == 3
MaxKeys == 3
MaxDepth == 2

(***************************************************************************)
(* The inputs: listener names, ports and the Listener Specs a topology may *)
(* hold for a name.                                                        *)
(***************************************************************************)
Names == {"L1", "L2"}

ListenerOrder == <<"L1", "L2">>

Ports == {6514, 6515}

ObjIds == 1..MaxObj

\* patterns that new RegExp(pattern, 'i') rejects with a SyntaxError
InvalidPatterns == {"("}

ValidSpecs(n) ==
    { [port |-> 6514, enable |-> TRUE, skipUpdate |-> FALSE, match |-> "",
       actions |-> "setTag", id |-> n, tag |-> "t1", trace |-> "",
       traceInput |-> "", receivers |-> {"C1"}],
      [port |-> 6514, enable |-> TRUE, skipUpdate |-> FALSE, match |-> "err",
       actions |-> "includeData", id |-> n, tag |-> "t2", trace |-> "trace",
       traceInput |-> "input", receivers |-> {}],
      [port |-> 6515, enable |-> TRUE, skipUpdate |-> FALSE, match |-> "",
       actions |-> "setTag", id |-> n, tag |-> "t1", trace |-> "",
       traceInput |-> "input", receivers |-> {"C1"}],
      [port |-> 6515, enable |-> FALSE, skipUpdate |-> FALSE, match |-> "",
       actions |-> "setTag", id |-> n, tag |-> "t1", trace |-> "",
       traceInput |-> "", receivers |-> {"C1"}] }

\* a spec whose match pattern is no regular expression; the first listener
\* of the topology's order may carry it
InvalidSpecs(n) ==
    IF n = ListenerOrder[1]
      THEN { [port |-> 6515, enable |-> TRUE, skipUpdate |-> FALSE, match |-> "(",
              actions |-> "setTag", id |-> n, tag |-> "t1", trace |-> "",
              traceInput |-> "", receivers |-> {"C1"}] }
      ELSE {}

ListenerSpecs(n) == ValidSpecs(n) \cup InvalidSpecs(n)

\* A component the declaration left untouched is delivered again, unchanged,
\* with skipUpdate set.
SpecChoices(n) ==
    ListenerSpecs(n) \cup
    (IF n \in DOMAIN config /\ config[n].enable
       THEN {[config[n] EXCEPT !.skipUpdate = TRUE]} ELSE {})

\* the topologies a 'change' event may carry: names are unique, and each
\* name holds one of its own specs
Topologies ==
    { cfg \in UNION { [S -> UNION {SpecChoices(n) : n \in S}] : S \in SUBSET Names } :
        \A n \in DOMAIN cfg : cfg[n] \in SpecChoices(n) }

\* the topology as declared: skipUpdate marks one delivery, not the declaration
Declared(cfg) == [n \in DOMAIN cfg |-> [cfg[n] EXCEPT !.skipUpdate = FALSE]]

(***************************************************************************)
(* MessageStream (modelled from the specification's Bound Port)            *)
(***************************************************************************)
NewMessageStream(port) ==
    [port |-> port, state |-> "new", messages |-> {}, rawData |-> {},
     rawDataForwarding |-> FALSE, read |-> "none"]

isRunning(r) == r.state = "running"

isDestroyed(r) == r.state = "destroyed"

hasListeners(r, evt) ==
    IF evt = "messages" THEN r.messages # {} ELSE r.rawData # {}

\* a receiver that holds, or may still hold, its socket
Live(r) == r.state \in {"starting", "running", "failed", "stopping", "destroying"}

(***************************************************************************)
(* The Event Listener module's state while the synchronous part of the     *)
(* 'change' handler runs: H.inst is EventListener.instances, H.reg is      *)
(* receiversManager.registered, H.recv the MessageStream objects,          *)
(* H.created the listeners constructed by this run, H.thrown whether an    *)
(* exception has left the handler, H.full whether the model ran out of     *)
(* object ids.                                                             *)
(***************************************************************************)
Heap == [inst |-> instances, reg |-> registered, recv |-> recv,
         created |-> {}, thrown |-> FALSE, full |-> FALSE]

Without(f, x) == [y \in DOMAIN f \ {x} |-> f[y]]

With(f, x, v) == [y \in DOMAIN f \cup {x} |-> IF y = x THEN v ELSE f[y]]

FreeIds(H) == ObjIds \ DOMAIN H.recv

\* the id the model gives a new MessageStream object: the slot of its port
\* when that is free, else the lowest free one
PortSlot(port) == IF port = 6514 THEN 1 ELSE 2

NewId(H, port) ==
    IF PortSlot(port) \in FreeIds(H) THEN PortSlot(port)
    ELSE CHOOSE i \in FreeIds(H) : \A j \in FreeIds(H) : i <= j

\* new RegExp(pattern, 'i') throws on a pattern that is not a regular expression
RegExpThrows(pattern) == pattern \in InvalidPatterns

\* buildFilterFunc: null without a match pattern, else a closure over the
\* pattern (named here by the pattern); [thrown] when the RegExp constructor throws
buildFilterFunc(c) ==
    IF c.match = "" THEN [thrown |-> FALSE, func |-> "null"]
    ELSE IF RegExpThrows(c.match) THEN [thrown |-> TRUE, func |-> "null"]
    ELSE [thrown |-> FALSE, func |-> c.match]

\* tracerMgr.fromConfig: a tracer for a trace setting, none without one
fromConfig(t) == IF t = "" THEN "null" ELSE t

\* configUtil.getReceivers(config, listenerConfig).map((r) => r.id)
getReceiverIds(c) == c.receivers

\* new EventListener(name): the constructor's updateConfig() leaves every
\* option undefined
NewEventListener(n) ==
    [name |-> n, messageStream |-> 0, actions |-> "undefined",
     destinationIds |-> <<>>, filterFunc |-> "undefined", id |-> "undefined",
     inputTracer |-> "undefined", tracer |-> "undefined", tags |-> "undefined"]

Truthy(v) == v \notin {"undefined", "null", ""}

\* the options with the receivers of the Listener Spec left out
OptionsOfNoReceivers(c) ==
    [actions |-> c.actions, destinationIds |-> <<{}>>,
     filterFunc |-> buildFilterFunc(c).func, id |-> c.id, tags |-> c.tag,
     tracer |-> fromConfig(c.trace), inputTracer |-> fromConfig(c.traceInput)]

\* the options the 'change' handler computes from a Listener Spec
OptionsOf(c) ==
    [actions |-> c.actions, destinationIds |-> <<getReceiverIds(c)>>,
     filterFunc |-> buildFilterFunc(c).func, id |-> c.id, tags |-> c.tag,
     tracer |-> fromConfig(c.trace), inputTracer |-> fromConfig(c.traceInput)]

updateConfig(H, n, o) ==
    [H EXCEPT !.inst[n] =
        [@ EXCEPT !.actions = o.actions, !.destinationIds = o.destinationIds,
                  !.filterFunc = o.filterFunc, !.id = o.id,
                  !.inputTracer = o.inputTracer, !.tracer = o.tracer,
                  !.tags = o.tags]]

\* detachMessageStream with a defect: the raw-data hook is left on the port
detachMessageStreamKeepsRawData(H, n) ==
    LET ms == H.inst[n].messageStream IN
    IF ms # 0
      THEN [H EXCEPT !.recv[ms].messages = @ \ {n},
                     !.inst[n].messageStream = 0]
      ELSE H

detachMessageStream(H, n) ==
    LET ms == H.inst[n].messageStream IN
    IF ms # 0
      THEN [H EXCEPT !.recv[ms].messages = @ \ {n},
                     !.recv[ms].rawData = @ \ {n},
                     !.inst[n].messageStream = 0]
      ELSE H

attachMessageStream(H, n, ms) ==
    IF H.inst[n].messageStream # 0
      THEN [H EXCEPT !.thrown = TRUE]
      ELSE [H EXCEPT !.inst[n].messageStream = ms,
                     !.recv[ms].messages = @ \cup {n}]

updateRawDataHandling(H, n) ==
    LET ms == H.inst[n].messageStream
        isRegistered == n \in H.recv[ms].rawData
    IN  IF Truthy(H.inst[n].inputTracer)
          THEN IF ~isRegistered
                 THEN [H EXCEPT !.recv[ms].rawData = @ \cup {n}]
                 ELSE H
          ELSE IF isRegistered
                 THEN [H EXCEPT !.recv[ms].rawData = @ \ {n}]
                 ELSE H

\* ReceiversManager.getMessageStream: the heap in which registered[port] is set
getMessageStream(H, port) ==
    IF port \in DOMAIN H.reg THEN H
    ELSE IF FreeIds(H) = {} THEN [H EXCEPT !.full = TRUE]
    ELSE LET i == NewId(H, port) IN
         [H EXCEPT !.recv = With(@, i, NewMessageStream(port)),
                   !.reg = With(@, port, i)]

\* EventListener.get
EventListenerGet(H, n, port) ==
    LET H1 == IF n \in DOMAIN H.inst THEN H
              ELSE [H EXCEPT !.inst = With(@, n, NewEventListener(n)),
                             !.created = @ \cup {n}]
        H2 == detachMessageStream(H1, n)
        H3 == getMessageStream(H2, port)
    IN  IF H3.full THEN H3 ELSE attachMessageStream(H3, n, H3.reg[port])

\* EventListener.remove with a defect: the listener is discarded but left attached
EventListenerRemoveNoDetach(H, n) ==
    [H EXCEPT !.inst = Without(@, n)]

\* EventListener.remove
EventListenerRemove(H, n) ==
    LET H1 == detachMessageStream(H, n) IN
    [H1 EXCEPT !.inst = Without(@, n)]

RECURSIVE RemoveEach(_, _)
RemoveEach(H, S) ==
    IF S = {} THEN H
    ELSE LET n == CHOOSE x \in S : TRUE IN
         RemoveEach(EventListenerRemove(H, n), S \ {n})

\* "stop all removed listeners"
RemoveAbsent(H, cfg) ==
    RemoveEach(H, {n \in DOMAIN H.inst : n \notin DOMAIN cfg})

\* "stop all disabled listeners"
RemoveDisabled(H, cfg) ==
    RemoveEach(H, {n \in DOMAIN cfg : n \in DOMAIN H.inst /\ cfg[n].enable = FALSE})

\* the body of the last configuredListeners.forEach, for one Listener Spec
UpdateListener(H, cfg, n) ==
    IF n \notin DOMAIN cfg \/ cfg[n].skipUpdate \/ cfg[n].enable = FALSE THEN H
    ELSE LET G == EventListenerGet(H, n, cfg[n].port) IN
         IF G.thrown \/ G.full THEN G
         ELSE IF buildFilterFunc(cfg[n]).thrown THEN [G EXCEPT !.thrown = TRUE]
         ELSE updateRawDataHandling(updateConfig(G, n, OptionsOf(cfg[n])), n)

\* the last configuredListeners.forEach: in the topology's order, ended by an exception
RECURSIVE UpdateListeners(_, _, _)
UpdateListeners(H, cfg, i) ==
    IF i > Len(ListenerOrder) \/ H.thrown \/ H.full THEN H
    ELSE UpdateListeners(UpdateListener(H, cfg, ListenerOrder[i]), cfg, i + 1)

\* stopAndRemoveInactive with a defect: the test on hasListeners is inverted
InactivePortsInverted(H) ==
    {p \in DOMAIN H.reg : hasListeners(H.recv[H.reg[p]], "messages")}

\* the ports stopAndRemoveInactive takes out of the registry
InactivePorts(H) ==
    {p \in DOMAIN H.reg : ~hasListeners(H.recv[H.reg[p]], "messages")}

\* stopAndRemoveInactive up to its allSettled: the inactive receivers are
\* unregistered and destroy() is called on each that is not destroyed
stopAndRemoveInactive(H) ==
    LET gone == InactivePorts(H)
        ids == {H.reg[p] : p \in gone}
    IN  [H EXCEPT !.reg = [p \in DOMAIN H.reg \ gone |-> H.reg[p]],
                  !.recv = [i \in DOMAIN H.recv |->
                              IF i \in ids /\ ~isDestroyed(H.recv[i])
                                THEN [H.recv[i] EXCEPT !.state = "destroying"]
                                ELSE H.recv[i]]]

\* the synchronous part of the Event Listener's 'change' handler
OnChange(H, cfg) ==
    LET H1 == RemoveDisabled(RemoveAbsent(H, cfg), cfg)
        H2 == UpdateListeners(H1, cfg, 1)
    IN  IF H2.thrown \/ H2.full THEN H2 ELSE stopAndRemoveInactive(H2)

(***************************************************************************)
(* The state after the modules are loaded                                  *)
(***************************************************************************)
Empty == [x \in {} |-> 0]

EmptyLog == [created |-> {}, rejected |-> {}, report |-> ""]

NoPipe == [stage |-> "idle", destinationIds |-> {}, verdict |-> Empty,
           outcome |-> "", handed |-> ""]

NoFilter == [stage |-> "idle", match |-> "", func |-> "undefined",
             data |-> Empty, result |-> FALSE]

NoListener == [filterFunc |-> "undefined", destinationIds |-> <<>>, id |-> "undefined"]

\* the Event Listener module when it is loaded
InitRec ==
    /\ config = Empty
    /\ instances = Empty
    /\ registered = Empty
    /\ recv = Empty
    /\ phase = "idle"
    /\ log = EmptyLog
    /\ queued = 0
    /\ active = 0

InitPipe == pipe = NoPipe

InitFlt == flt = NoFilter

InitIng ==
    /\ listener = NoListener
    /\ arrived = <<>>
    /\ calls = <<>>
    /\ returned = <<>>

InitFrm ==
    /\ stream = <<>>
    /\ chunks = <<>>
    /\ buffer = <<>>
    /\ emitted = <<>>

NoReload == [stage |-> "idle", config |-> Empty, typesBefore |-> {},
             before |-> Empty, loads |-> Empty, unloaded |-> Empty]

\* consumers.js when it is loaded
InitCon ==
    /\ CONSUMERS = Empty
    /\ moduleCache = {}
    /\ reload = NoReload

NoCall == [stage |-> "idle", event |-> [type |-> "", data |-> <<>>],
           requests |-> <<>>, promise |-> "none", logged |-> ""]

InitPlg == azure = NoCall

NoDeclaration ==
    [stage |-> "idle", class |-> "", body |-> Empty, valid |-> FALSE, out |-> Empty]

InitVal == decl = NoDeclaration

\* the parts outside the listeners, pipeline, filter, ingest, framer and
\* consumer registry
InitCln == cleaner = [stage |-> "new", inputData |-> Empty, thrown |-> FALSE]

InitWrk == worker = [requests |-> <<>>]

InitOvl == runs = <<>>

InitRest == InitPlg /\ InitVal /\ InitCln /\ InitWrk /\ InitOvl

Init == InitRec /\ InitPipe /\ InitFlt /\ InitIng /\ InitFrm /\ InitCon /\ InitRest

(***************************************************************************)
(* The config worker (modelled from the specification's Reconciliation     *)
(* Controller): a 'change' event is emitted for the next waiting topology  *)
(* once the pass before it has completed.                                  *)
(***************************************************************************)
\* a dispatcher with a defect: it emits 'change' whenever an event waits
CanDispatchAnytime == TRUE

CanDispatch == phase = "idle"

\* a configuration-change event arrives
Submit ==
    /\ phase # "idle"
    /\ queued < MaxQueue
    /\ queued' = queued + 1
    /\ UNCHANGED <<config, instances, registered, recv, phase, log, active, notRec>>

\* configWorker.on('change'): the handler's synchronous part, to the point
\* where stopAndRemoveInactive waits for the destroys, or to the exception
\* that leaves the handler
EmitRec(cfg) ==
    /\ \E H \in {OnChange(Heap, cfg)} :
       /\ ~H.full
       /\ config' = Declared(cfg)
       /\ instances' = H.inst
       /\ registered' = H.reg
       /\ recv' = H.recv
       /\ phase' = IF H.thrown THEN "thrown" ELSE "stopping"
       /\ log' = [EmptyLog EXCEPT
                    !.created = H.created,
                    !.report = IF H.thrown THEN "thrown" ELSE ""]
    /\ active' = active + 1

Emit(cfg) == EmitRec(cfg) /\ UNCHANGED notRec

\* a configuration-change event arrives while no pass runs and is emitted at once
Apply ==
    /\ CanDispatch
    /\ queued = 0
    /\ \E cfg \in Topologies : Emit(cfg)
    /\ UNCHANGED queued

\* the pass before it has completed: the next waiting event is emitted
Dispatch ==
    /\ CanDispatch
    /\ queued > 0
    /\ \E cfg \in Topologies : Emit(cfg)
    /\ queued' = queued - 1

\* r.destroy() settles, resolved or rejected: the catch of
\* stopAndRemoveInactive logs a rejection ('unable to stop and destroy
\* receiver') and nothing else; the receiver is released either way
DestroySettle(i) ==
    /\ phase = "stopping"
    /\ i \in DOMAIN recv
    /\ recv[i].state = "destroying"
    /\ recv' = IF \E n \in DOMAIN instances : instances[n].messageStream = i
                 THEN [recv EXCEPT ![i].state = "destroyed"]
                 ELSE Without(recv, i)
    /\ UNCHANGED <<config, instances, registered, phase, log, queued, active, notRec>>

\* a chain that does not wait for the destroys before it starts the receivers
DestroysNotAwaited == TRUE

\* allSettled of stopAndRemoveInactive: every destroy has settled
DestroysSettled == \A i \in DOMAIN recv : recv[i].state # "destroying"

\* the listeners attached to receiver i
Attached(i) == {n \in DOMAIN instances : instances[n].messageStream = i}

\* port p is bound: its receiver is registered and running
Bound(p) == p \in DOMAIN registered /\ isRunning(recv[registered[p]])

\* ReceiversManager.start with a defect: running receivers are restarted too
StartTargetsAll ==
    {p \in DOMAIN registered : hasListeners(recv[registered[p]], "messages")}

\* ReceiversManager.start: the receivers it restarts
StartTargets ==
    {p \in DOMAIN registered :
        /\ hasListeners(recv[registered[p]], "messages")
        /\ ~isRunning(recv[registered[p]])}

\* ReceiversManager.start up to its allSettled: raw-data forwarding is set on
\* every registered receiver and restart({attempts: 10}) is called on the targets
StartAll ==
    /\ phase = "stopping"
    /\ DestroysSettled
    /\ LET T == StartTargets
           ids == {registered[p] : p \in DOMAIN registered}
       IN
       /\ recv' = [i \in DOMAIN recv |->
                     IF i \in ids
                       THEN [recv[i] EXCEPT
                               !.state = IF recv[i].port \in T /\ registered[recv[i].port] = i
                                           THEN "starting" ELSE @,
                               !.rawDataForwarding = hasListeners(recv[i], "rawData")]
                       ELSE recv[i]]
       /\ log' = [log EXCEPT !.created = {}]
    /\ phase' = "starting"
    /\ UNCHANGED <<config, instances, registered, queued, active, notRec>>

\* restart({attempts: 10}) resolves: one of its attempts bound the port
RestartOk(i) ==
    /\ phase = "starting"
    /\ i \in DOMAIN recv
    /\ recv[i].state = "starting"
    /\ recv' = [recv EXCEPT ![i].state = "running"]
    /\ UNCHANGED <<config, instances, registered, phase, log, queued, active, notRec>>

\* the catch of start with a defect: the receiver is not stopped
StartCatchNoStop(r) == [r EXCEPT !.state = "failed"]

\* the catch of start: r.stop() is called on the receiver whose restart rejected
StartCatch(r) == [r EXCEPT !.state = "stopping"]

\* restart({attempts: 10}) rejects: every attempt failed
RestartFail(i) ==
    /\ phase = "starting"
    /\ i \in DOMAIN recv
    /\ recv[i].state = "starting"
    /\ recv' = [recv EXCEPT ![i] = StartCatch([@ EXCEPT !.state = "failed"])]
    /\ log' = [log EXCEPT !.rejected = @ \cup {recv[i].port}]
    /\ UNCHANGED <<config, instances, registered, phase, queued, active, notRec>>

\* r.stop() settles: the port is unbound and the restart's error is passed on
StopSettle(i) ==
    /\ phase = "starting"
    /\ i \in DOMAIN recv
    /\ recv[i].state = "stopping"
    /\ recv' = [recv EXCEPT ![i].state = "stopped"]
    /\ UNCHANGED <<config, instances, registered, phase, log, queued, active, notRec>>

\* start's wait with a defect: it ends with the first rejection (Promise.all)
StartSettledOnFirstRejection ==
    \/ \A i \in DOMAIN recv : recv[i].state \notin {"starting", "stopping"}
    \/ \E i \in DOMAIN recv : recv[i].state \in {"stopped", "failed"}

\* allSettled of start: every restart, and the stop after a rejected one, has settled
StartSettled ==
    \A i \in DOMAIN recv : recv[i].state \notin {"starting", "stopping"}

\* the end of the handler's chain: getValues passes the rejections on, and the
\* handler logs either the number of listeners listening or the failure
StartDone ==
    /\ phase = "starting"
    /\ StartSettled
    /\ phase' = "done"
    /\ log' = [log EXCEPT !.report = IF log.rejected = {} THEN "success" ELSE "failure"]
    /\ UNCHANGED <<config, instances, registered, recv, queued, active, notRec>>

\* the handler's promise has settled, or its exception has reached the emitter
EmitDone ==
    /\ phase \in {"done", "thrown"}
    /\ phase' = "idle"
    /\ log' = EmptyLog
    /\ active' = active - 1
    /\ UNCHANGED <<config, instances, registered, recv, queued, notRec>>

Next ==
    \/ Submit
    \/ Apply
    \/ Dispatch
    \/ \E i \in ObjIds : DestroySettle(i)
    \/ StartAll
    \/ \E i \in ObjIds : RestartOk(i)
    \/ \E i \in ObjIds : RestartFail(i)
    \/ \E i \in ObjIds : StopSettle(i)
    \/ StartDone
    \/ EmitDone

Spec == Init /\ [][Next]_vars

(***************************************************************************)
(* The Delivery Pipeline (modelled from the specification, 4.4): one       *)
(* process() call fans a record out to its destination consumers. Each     *)
(* consumer ends with a verdict: "filtered" (its own filter refused the    *)
(* record), "delivered", "threw" (a synchronous exception) or "rejected"   *)
(* (a failed completion).                                                  *)
(***************************************************************************)
Consumers == {"A", "B", "C"}

Verdicts == {"filtered", "delivered", "threw", "rejected"}

Failed(v) == v \in {"threw", "rejected"}

\* dataPipeline.process(dataCtx, {tracer, actions}) is called for a record
\* destined for the consumers in dest
Process(dest) ==
    /\ pipe.stage = "idle"
    /\ pipe' = [stage |-> "fanout", destinationIds |-> dest,
                verdict |-> [c \in dest |-> "pending"],
                outcome |-> "", handed |-> ""]
    /\ UNCHANGED notPipe

\* a pipeline with a defect: a consumer's failure ends the call and fails it
SettleConsumerPropagating(p, c, v) ==
    IF Failed(v)
      THEN [p EXCEPT !.verdict[c] = v, !.stage = "settled", !.outcome = "rejected"]
      ELSE [p EXCEPT !.verdict[c] = v]

\* the pipeline's handling of one consumer's verdict: a failure is caught
\* and logged with the consumer's identity, and nothing else changes
SettleConsumer(p, c, v) == [p EXCEPT !.verdict[c] = v]

\* one destination consumer is filtered out, or invoked and settles
Invoke(c, v) ==
    /\ pipe.stage = "fanout"
    /\ c \in pipe.destinationIds
    /\ pipe.verdict[c] = "pending"
    /\ pipe' = SettleConsumer(pipe, c, v)
    /\ UNCHANGED notPipe

\* every destination has its verdict: the process() call completes
FanoutDone ==
    /\ pipe.stage = "fanout"
    /\ \A c \in pipe.destinationIds : pipe.verdict[c] # "pending"
    /\ pipe' = [pipe EXCEPT !.stage = "settled", !.outcome = "resolved"]
    /\ UNCHANGED notPipe

\* EventListener.onMessagesHandler: the catch on process() logs a rejection,
\* so the promise the handler keeps for the event is resolved either way
HandlerCatch ==
    /\ pipe.stage = "settled"
    /\ pipe' = [pipe EXCEPT !.stage = "done", !.handed = "resolved"]
    /\ UNCHANGED notPipe

\* the next record
NextRecord ==
    /\ pipe.stage = "done"
    /\ pipe' = NoPipe
    /\ UNCHANGED notPipe

NextPipeline ==
    \/ \E dest \in SUBSET Consumers : Process(dest)
    \/ \E c \in Consumers : \E v \in Verdicts : Invoke(c, v)
    \/ FanoutDone
    \/ HandlerCatch
    \/ NextRecord

SpecPipeline == Init /\ [][NextPipeline]_vars

(***************************************************************************)
(* Event strings and record values are sequences of characters.            *)
(***************************************************************************)
ERROR == <<"E", "R", "R", "O", "R">>

info == <<"i", "n", "f", "o">>

\* case folding of the 'i' flag
ToLower(c) ==
    CASE c = "E" -> "e" [] c = "R" -> "r" [] c = "O" -> "o" [] OTHER -> c

Lower(s) == [i \in 1..Len(s) |-> ToLower(s[i])]

\* new RegExp(source, 'i') for the patterns of the model: a literal that may
\* be anchored at the start (^) and at the end ($) of the value
RegExp(source) ==
    CASE source = "err" -> [lit |-> <<"e", "r", "r">>, start |-> FALSE, end |-> FALSE]
      [] source = "^$"  -> [lit |-> <<>>, start |-> TRUE, end |-> TRUE]
      [] source = "^i"  -> [lit |-> <<"i">>, start |-> TRUE, end |-> FALSE]

\* pattern.test(val): the literal occurs in the value, case folded, at a
\* place its anchors allow
test(re, s) ==
    \E i \in 1..(Len(s) - Len(re.lit) + 1) :
      /\ re.start => i = 1
      /\ re.end => i + Len(re.lit) - 1 = Len(s)
      /\ \A j \in 1..Len(re.lit) : Lower(s)[i + j - 1] = Lower(re.lit)[j]

\* normalizationOpts.events.classifyByKeys (properties.json)
classifyByKeys == <<"level", "virtual_name">>

\* the values a record may hold under a key: a string, possibly empty
Values == {<<>>, ERROR, info}

\* the normalized records: any of the classification keys may be absent
Records ==
    UNION { [K -> Values] : K \in SUBSET {classifyByKeys[i] : i \in 1..Len(classifyByKeys)} }

\* a filter that looks at the first classification key only
filterFuncFirstKeyOnly(func, data) ==
    /\ classifyByKeys[1] \in DOMAIN data
    /\ data[classifyByKeys[1]] # <<>>
    /\ test(RegExp(func), data[classifyByKeys[1]])

\* the function buildFilterFunc returns, applied to a record: true when a
\* classification key holds a truthy value the pattern matches
filterFunc(func, data) ==
    \E i \in 1..Len(classifyByKeys) :
      LET val == IF classifyByKeys[i] \in DOMAIN data
                   THEN data[classifyByKeys[i]] ELSE <<>>
      IN /\ classifyByKeys[i] \in DOMAIN data
         /\ val # <<>>
         /\ test(RegExp(func), val)

\* onMessagesHandler's test of a normalized record
Accepts(func, data) == ~Truthy(func) \/ filterFunc(func, data)

\* the match patterns a Listener Spec may carry
MatchPatterns == {"", "err", "^$", "^i"} \cup InvalidPatterns

InitFilter ==
    /\ InitRec /\ InitPipe /\ InitIng /\ InitFrm /\ InitCon /\ InitRest
    /\ flt \in { [stage |-> "input", match |-> m, func |-> "undefined",
                  data |-> d, result |-> FALSE] : m \in MatchPatterns, d \in Records }

\* filterFunc: buildFilterFunc(listenerConfig)
BuildFilter ==
    /\ flt.stage = "input"
    /\ LET b == buildFilterFunc([match |-> flt.match])
       IN flt' = [flt EXCEPT !.stage = IF b.thrown THEN "thrown" ELSE "built",
                             !.func = b.func]
    /\ UNCHANGED notFlt

\* the listener applies the function to a normalized record
ApplyFilter ==
    /\ flt.stage = "built"
    /\ flt' = [flt EXCEPT !.stage = "applied", !.result = Accepts(flt.func, flt.data)]
    /\ UNCHANGED notFlt

NextFilter == BuildFilter \/ ApplyFilter

SpecFilter == InitFilter /\ [][NextFilter]_vars

(***************************************************************************)
(* EventListener.onMessagesHandler: the batches of event strings that the  *)
(* message stream of a connection emits, and the dataPipeline.process      *)
(* calls the listener starts for them.                                     *)
(***************************************************************************)
MaxBatches == 2

IsSpace(c) == c \in {" ", "\n"}

RECURSIVE TrimStart(_)
TrimStart(e) ==
    IF e # <<>> /\ IsSpace(Head(e)) THEN TrimStart(Tail(e)) ELSE e

RECURSIVE TrimEnd(_)
TrimEnd(e) ==
    IF e # <<>> /\ IsSpace(e[Len(e)]) THEN TrimEnd(SubSeq(e, 1, Len(e) - 1)) ELSE e

\* String.prototype.trim
trim(e) == TrimEnd(TrimStart(e))

\* the event strings of the model
Events == { <<>>, <<" ", "\n">>, ERROR \o <<" ">>, <<" ">> \o info }

\* the batches a 'messages' event may carry
Batches ==
    { <<>>,
      << <<" ", "\n">> >>,
      << ERROR \o <<" ">>, <<" ">> \o info >>,
      << <<" ">> \o info, <<>>, ERROR \o <<" ">> >>,
      << <<" ">> \o info, <<" ">> \o info >> }

\* constants.EVENT_TYPES.EVENT_LISTENER
EVENT_LISTENER == "event"

\* classifyEventByKeys of normalize.event: the category of an event, left
\* undefined when no category matches
classifyCategory(e) == IF e = ERROR THEN "LTM" ELSE "undefined"

\* normalize.event(event, options): the record of an event; the model's
\* records carry the event's text as payload and as the value of the first
\* classification key
normalizeEvent(e) ==
    [data |-> e, level |-> e, telemetryEventCategory |-> classifyCategory(e)]

\* a handler that tests the length of the event before trimming it
KeepsUntrimmed(e) == Len(e) # 0

\* the handler goes on with an event that is not empty once trimmed
Keeps(e) == Len(trim(e)) # 0

\* a dataCtx whose type is the default one whatever the record's category
NewCallDefaultType(l, data, b) ==
    [data |-> data, type |-> EVENT_LISTENER, sourceId |-> l.id,
     destinationIds |-> l.destinationIds, batch |-> b,
     outcome |-> "pending", p |-> "pending", logged |-> FALSE]

\* the dataCtx handed to dataPipeline.process, and the promise p kept for it
NewCall(l, data, b) ==
    [data |-> data,
     type |-> IF Truthy(data.telemetryEventCategory)
                THEN data.telemetryEventCategory ELSE EVENT_LISTENER,
     sourceId |-> l.id,
     destinationIds |-> l.destinationIds, batch |-> b,
     outcome |-> "pending", p |-> "pending", logged |-> FALSE]

\* a loop that walks the batch from its last event to its first
RECURSIVE forEachEventBackwards(_, _, _, _)
forEachEventBackwards(l, batch, b, acc) ==
    IF batch = <<>> THEN acc
    ELSE LET event == batch[Len(batch)]
             normalizedData == normalizeEvent(trim(event))
             rest == SubSeq(batch, 1, Len(batch) - 1)
         IN IF Keeps(event) /\ Accepts(l.filterFunc, normalizedData)
              THEN forEachEventBackwards(l, rest, b, Append(acc, NewCall(l, normalizedData, b)))
              ELSE forEachEventBackwards(l, rest, b, acc)

\* newMessages.forEach: trim, skip the empty event, normalize, test the
\* filter, call the pipeline; acc is the calls started so far
RECURSIVE forEachEvent(_, _, _, _)
forEachEvent(l, batch, b, acc) ==
    IF batch = <<>> THEN acc
    ELSE LET event == Head(batch)
             normalizedData == normalizeEvent(trim(event))
         IN IF Keeps(event) /\ Accepts(l.filterFunc, normalizedData)
              THEN forEachEvent(l, Tail(batch), b, Append(acc, NewCall(l, normalizedData, b)))
              ELSE forEachEvent(l, Tail(batch), b, acc)

\* the listeners the 'change' handler may have configured
ConfiguredListeners ==
    { [filterFunc |-> OptionsOf(c).filterFunc,
       destinationIds |-> OptionsOf(c).destinationIds,
       id |-> OptionsOf(c).id] :
        c \in {d \in ValidSpecs("L1") : d.enable} }

InitIngest ==
    /\ InitRec /\ InitPipe /\ InitFlt /\ InitFrm /\ InitCon /\ InitRest
    /\ listener \in ConfiguredListeners
    /\ arrived = <<>>
    /\ calls = <<>>
    /\ returned = <<>>

\* listener.updateConfig between two batches
Reconfigure ==
    /\ Len(arrived) < MaxBatches
    /\ \E l \in ConfiguredListeners : l # listener /\ listener' = l
    /\ UNCHANGED <<arrived, calls, returned, notIng>>

\* onMessagesHandler(newMessages)
OnMessagesHandler(newMessages) ==
    /\ Len(arrived) < MaxBatches
    /\ arrived' = Append(arrived, [events |-> newMessages,
                                   filterFunc |-> listener.filterFunc,
                                   destinationIds |-> listener.destinationIds,
                                   id |-> listener.id])
    /\ calls' = forEachEvent(listener, newMessages, Len(arrived) + 1, calls)
    /\ returned' = Append(returned, "pending")
    /\ UNCHANGED <<listener, notIng>>

\* a handler without the catch: the rejection stays in the promise kept
ProcessNoCatch(call, outcome) ==
    [call EXCEPT !.outcome = outcome, !.p = outcome]

\* dataPipeline.process(...).catch(logger.exception): a rejection is logged
\* and the promise kept for the event is resolved either way
ProcessCatch(call, outcome) ==
    [call EXCEPT !.outcome = outcome, !.p = "resolved",
                 !.logged = (outcome = "rejected")]

\* the promise of one dataPipeline.process call settles
ProcessSettle(i, outcome) ==
    /\ i \in 1..Len(calls)
    /\ calls[i].p = "pending"
    /\ calls' = [calls EXCEPT ![i] = ProcessCatch(calls[i], outcome)]
    /\ UNCHANGED <<listener, arrived, returned, notIng>>

\* promiseUtil.allSettled(promises): resolved once every promise of the
\* batch has settled, whatever the outcomes
AllSettled(b) ==
    /\ b \in 1..Len(returned)
    /\ returned[b] = "pending"
    /\ \A i \in 1..Len(calls) : calls[i].batch = b => calls[i].p # "pending"
    /\ returned' = [returned EXCEPT ![b] = "resolved"]
    /\ UNCHANGED <<listener, arrived, calls, notIng>>

NextIngest ==
    \/ Reconfigure
    \/ \E newMessages \in Batches : OnMessagesHandler(newMessages)
    \/ \E i \in 1..Len(calls) : \E o \in {"resolved", "rejected"} : ProcessSettle(i, o)
    \/ \E b \in 1..Len(returned) : AllSettled(b)

SpecIngest == InitIngest /\ [][NextIngest]_vars

(***************************************************************************)
(* The Stream Framer (modelled from the specification, section 4.1): the   *)
(* bytes of one connection arrive in chunks; every line feed completes an  *)
(* event, a carriage return before it is not part of the event, and the    *)
(* bytes after the last line feed are retained for the next chunk.         *)
(***************************************************************************)
MaxBytes == 4

Bytes == {"a", "\r", "\n"}

ByteSeqs == UNION { [1..n -> Bytes] : n \in 0..MaxBytes }

\* the event of a completed line: the delimiter's control characters are
\* no part of it
StripCR(line) ==
    IF line # <<>> /\ line[Len(line)] = "\r"
      THEN SubSeq(line, 1, Len(line) - 1) ELSE line

\* a framer that forgets the partial line at the end of a chunk
RECURSIVE FrameDropsPartial(_, _, _)
FrameDropsPartial(buf, chunk, out) ==
    IF chunk = <<>> THEN [buffer |-> <<>>, events |-> out]
    ELSE IF Head(chunk) = "\n"
      THEN FrameDropsPartial(<<>>, Tail(chunk), Append(out, StripCR(buf)))
      ELSE FrameDropsPartial(Append(buf, Head(chunk)), Tail(chunk), out)

\* the framer takes one chunk, byte by byte: buf is the partial line, out
\* the events completed so far
RECURSIVE Frame(_, _, _)
Frame(buf, chunk, out) ==
    IF chunk = <<>> THEN [buffer |-> buf, events |-> out]
    ELSE IF Head(chunk) = "\n"
      THEN Frame(<<>>, Tail(chunk), Append(out, StripCR(buf)))
      ELSE Frame(Append(buf, Head(chunk)), Tail(chunk), out)

InitFramer ==
    /\ InitRec /\ InitPipe /\ InitFlt /\ InitIng /\ InitCon /\ InitRest
    /\ stream \in ByteSeqs
    /\ chunks = <<>>
    /\ buffer = <<>>
    /\ emitted = <<>>

\* the socket delivers the next k bytes as one chunk
OnData(k) ==
    /\ k \in 1..Len(stream)
    /\ LET chunk == SubSeq(stream, 1, k)
           r == Frame(buffer, chunk, emitted)
       IN /\ chunks' = Append(chunks, chunk)
          /\ buffer' = r.buffer
          /\ emitted' = r.events
    /\ stream' = SubSeq(stream, k + 1, Len(stream))
    /\ UNCHANGED notFrm

NextFramer == \E k \in 1..MaxBytes : OnData(k)

SpecFramer == InitFramer /\ [][NextFramer]_vars

(***************************************************************************)
(* consumers.js: the Consumer Registry. A 'change' event carries the       *)
(* Consumer Specs; loadConsumers starts one load promise per enabled spec, *)
(* the result is published in CONSUMERS once all have settled, and the     *)
(* modules of types no longer published are then unloaded. The module      *)
(* loader, the metadata utility and the config worker are modelled from    *)
(* the specification.                                                      *)
(***************************************************************************)
ConsumerIds == {"C1", "C2"}

\* the order of the consumers in the array configUtil.getTelemetryConsumers returns
ConsumerOrder == <<"C1", "C2">>

\* consumer types whose plugin module is missing or invalid
MissingModules == {"Bad"}

ConsumerSpecs(id) ==
    { [id |-> id, type |-> "X", enable |-> TRUE, skipUpdate |-> FALSE],
      [id |-> id, type |-> "Y", enable |-> TRUE, skipUpdate |-> FALSE],
      [id |-> id, type |-> "Bad", enable |-> TRUE, skipUpdate |-> FALSE],
      [id |-> id, type |-> "X", enable |-> FALSE, skipUpdate |-> FALSE] }

\* a consumer the declaration left untouched is delivered again with
\* skipUpdate set
ConsumerChoices(id) ==
    ConsumerSpecs(id) \cup
    (IF id \in DOMAIN reload.config
       THEN {[reload.config[id] EXCEPT !.skipUpdate = TRUE]} ELSE {})

\* configUtil.getTelemetryConsumers(config): ids are unique
ConsumerConfigs ==
    { cfg \in UNION { [S -> UNION {ConsumerChoices(i) : i \in S}] : S \in SUBSET ConsumerIds } :
        \A i \in DOMAIN cfg : cfg[i] \in ConsumerChoices(i) }

NoInstance == [id |-> "", type |-> "", oid |-> 0, metadata |-> "none"]

\* getLoadedConsumerTypes
getLoadedConsumerTypes(cs) == {cs[i].type : i \in DOMAIN cs}

\* moduleLoader.load(consumerDir): the module, or null when it is missing
moduleLoaderLoad(type) == IF type \in MissingModules THEN "null" ELSE type

\* the identity of a newly built object: the lowest one not in use
NewOid(used) ==
    CHOOSE i \in 1..(Cardinality(used) + 1) :
      i \notin used /\ \A j \in 1..(Cardinality(used) + 1) : j \notin used => i <= j

\* an executor that reuses the published instance whatever skipUpdate says
ReusesWheneverPublished(c, cs) == c.id \in DOMAIN cs

\* consumerConfig.skipUpdate && existingConsumer
Reuses(c, cs) == c.skipUpdate /\ c.id \in DOMAIN cs

\* consumer types for which building the instance throws in the executor
\* (the copy of the config, the tracer, the DataFilter or the metadata call)
ThrowingBuilds == {"Z"}

\* the executor of one load promise: resolve(existingConsumer),
\* resolve(undefined), or build the consumer and ask for its metadata; an
\* exception thrown in the executor rejects the load promise
Executor(c, cs, acc) ==
    IF Reuses(c, cs)
      THEN [acc EXCEPT !.loads = With(acc.loads, c.id,
               [promise |-> "resolved", has |-> TRUE, value |-> cs[c.id],
                loaded |-> FALSE, metadata |-> "none"])]
    ELSE IF moduleLoaderLoad(c.type) = "null"
      THEN [acc EXCEPT !.loads = With(acc.loads, c.id,
               [promise |-> "resolved", has |-> FALSE, value |-> NoInstance,
                loaded |-> TRUE, metadata |-> "none"])]
    ELSE IF c.type \in ThrowingBuilds
      THEN [acc EXCEPT !.loads = With(acc.loads, c.id,
               [promise |-> "rejected", has |-> FALSE, value |-> NoInstance,
                loaded |-> TRUE, metadata |-> "none"]),
                       !.cache = acc.cache \cup {c.type}]
    ELSE [loads |-> With(acc.loads, c.id,
               [promise |-> "pending", has |-> TRUE,
                value |-> [id |-> c.id, type |-> c.type, oid |-> NewOid(acc.used),
                           metadata |-> "none"],
                loaded |-> TRUE, metadata |-> "requested"]),
          cache |-> acc.cache \cup {c.type},
          used |-> acc.used \cup {NewOid(acc.used)}]

\* enabledConsumers.map((consumerConfig) => new Promise(...))
RECURSIVE loadEach(_, _, _, _)
loadEach(order, cfg, cs, acc) ==
    IF order = <<>> THEN acc
    ELSE IF Head(order) \in DOMAIN cfg /\ cfg[Head(order)].enable
      THEN loadEach(Tail(order), cfg, cs, Executor(cfg[Head(order)], cs, acc))
      ELSE loadEach(Tail(order), cfg, cs, acc)

\* loadConsumers(config), up to the load promises
loadConsumers(cfg, cs, cache) ==
    LET acc == [loads |-> Empty, cache |-> cache, used |-> {cs[i].oid : i \in DOMAIN cs}]
    IN IF DOMAIN cfg = {} THEN acc
       ELSE IF {i \in DOMAIN cfg : cfg[i].enable} = {} THEN acc
       ELSE loadEach(ConsumerOrder, cfg, cs, acc)

\* the 'change' handler of consumers.js, up to the load promises
ConsumersStart(cfg) ==
    /\ reload.stage \in {"idle", "done"}
    /\ \E r \in {loadConsumers(cfg, CONSUMERS, moduleCache)} :
         /\ reload' = [stage |-> "loading", config |-> cfg,
                       typesBefore |-> getLoadedConsumerTypes(CONSUMERS),
                       before |-> CONSUMERS, loads |-> r.loads,
                       unloaded |-> Empty]
         /\ moduleCache' = r.cache
    /\ UNCHANGED CONSUMERS

ConsumersOnChange(cfg) == ConsumersStart(cfg) /\ UNCHANGED notCon

\* metadataUtil.getInstanceMetadata(consumer).then(...): the metadata, when
\* there is some, is attached and the load promise resolved; nothing
\* handles a rejection
MetadataSettled(load, o) ==
    IF o = "rejected" THEN [load EXCEPT !.metadata = "rejected"]
    ELSE [load EXCEPT !.metadata = "resolved", !.promise = "resolved",
                      !.value.metadata = IF o = "meta" THEN "meta" ELSE "none"]

\* the metadata resolution of one consumer settles
MetadataSettle(id, o) ==
    /\ reload.stage = "loading"
    /\ id \in DOMAIN reload.loads
    /\ reload.loads[id].metadata = "requested"
    /\ reload' = [reload EXCEPT !.loads[id] = MetadataSettled(reload.loads[id], o)]
    /\ UNCHANGED <<CONSUMERS, moduleCache, notCon>>

\* a registry that publishes as soon as one load promise has settled
LoadsSettledSome(loads) ==
    \E i \in DOMAIN loads : loads[i].promise # "pending"

\* promiseUtil.allSettled(loadPromises)
LoadsSettled(loads) ==
    \A i \in DOMAIN loads : loads[i].promise # "pending"

\* a registry that keeps the undefined results
getValuesUnfiltered(loads) ==
    [i \in {j \in DOMAIN loads : loads[j].promise # "pending"} |-> loads[i].value]

\* promiseUtil.getValues(results).filter((c) => c !== undefined)
getValues(loads) ==
    [i \in {j \in DOMAIN loads : loads[j].promise # "pending" /\ loads[j].has} |->
       loads[i].value]

\* promiseUtil.getValues(results) throws the reason of a rejected result
LoadsRejected(loads) ==
    \E i \in DOMAIN loads : loads[i].promise = "rejected"

\* CONSUMERS = consumers
Publish ==
    /\ reload.stage = "loading"
    /\ LoadsSettled(reload.loads)
    /\ ~LoadsRejected(reload.loads)
    /\ CONSUMERS' = getValues(reload.loads)
    /\ reload' = [reload EXCEPT !.stage = "published"]
    /\ UNCHANGED <<moduleCache, notCon>>

\* .catch((err) => logger.exception(...)): loadConsumers rejected, nothing
\* is assigned to CONSUMERS and the exception is logged
PublishFails ==
    /\ reload.stage = "loading"
    /\ LoadsSettled(reload.loads)
    /\ LoadsRejected(reload.loads)
    /\ reload' = [reload EXCEPT !.stage = "failed"]
    /\ UNCHANGED <<CONSUMERS, moduleCache, notCon>>

\* an unload of every type that was loaded before
UnusedTypesAllBefore(before, cs) == before

\* unloadUnusedModules: the types loaded before that no published consumer has
UnusedTypes(before, cs) ==
    IF before = {} THEN {}
    ELSE {t \in before : t \notin getLoadedConsumerTypes(cs)}

\* .then(() => unloadUnusedModules(typesBefore))
UnloadUnusedModules ==
    /\ reload.stage \in {"published", "failed"}
    /\ LET unused == UnusedTypes(reload.typesBefore, CONSUMERS)
       IN /\ moduleCache' = moduleCache \ unused
          /\ reload' = [reload EXCEPT !.stage = "done",
                          !.unloaded = [t \in unused |-> 1]]
    /\ UNCHANGED <<CONSUMERS, notCon>>

NextConsumers ==
    \/ \E cfg \in ConsumerConfigs : ConsumersOnChange(cfg)
    \/ \E id \in ConsumerIds : \E o \in {"meta", "empty", "rejected"} : MetadataSettle(id, o)
    \/ Publish
    \/ UnloadUnusedModules

SpecConsumers == Init /\ [][NextConsumers]_vars

\* every asynchronous step that is pending is eventually taken
SpecConsumersFair ==
    /\ SpecConsumers
    /\ WF_vars(\E id \in ConsumerIds : \E o \in {"meta", "empty", "rejected"} : MetadataSettle(id, o))
    /\ WF_vars(Publish)
    /\ WF_vars(UnloadUnusedModules)

(***************************************************************************)
(* Reloads in which building an instance may throw.                        *)
(***************************************************************************)
FailingChoices(id) ==
    {[id |-> id, type |-> t, enable |-> TRUE, skipUpdate |-> FALSE] :
       t \in ThrowingBuilds \cup (IF id = ConsumerOrder[1] THEN {"X", "Y"} ELSE {"X"})}

FailingConfigs ==
    UNION { { cfg \in [S -> UNION {FailingChoices(i) : i \in S}] :
                \A i \in S : cfg[i] \in FailingChoices(i) } : S \in SUBSET ConsumerIds }

NextFails ==
    \/ \E cfg \in FailingConfigs : ConsumersOnChange(cfg)
    \/ \E id \in ConsumerIds : \E o \in {"meta", "empty", "rejected"} : MetadataSettle(id, o)
    \/ Publish
    \/ PublishFails
    \/ UnloadUnusedModules

SpecFails == Init /\ [][NextFails]_vars

(***************************************************************************)
(* Two 'change' events whose handlers are under way together. Each run of  *)
(* the handler keeps its own typesBefore and load promises in its closure; *)
(* CONSUMERS and the module cache are the module's, shared by the runs.    *)
(* The second event may come while the loads of the first are pending.     *)
(***************************************************************************)
OverlapConfigs ==
    UNION { { cfg \in [S -> UNION {ConsumerSpecs(i) : i \in S}] :
                \A i \in S : cfg[i] \in ConsumerSpecs(i) } : S \in SUBSET ConsumerIds }

\* the handler of consumers.js for one more event, up to the load promises
RunStart(cfg) ==
    /\ Len(runs) < 2
    /\ \A e \in DOMAIN runs : runs[e].stage = "loading"
    /\ \E r \in {loadConsumers(cfg, CONSUMERS, moduleCache)} :
         /\ runs' = Append(runs, [stage |-> "loading", config |-> cfg,
                                  typesBefore |-> getLoadedConsumerTypes(CONSUMERS),
                                  before |-> CONSUMERS, loads |-> r.loads,
                                  unloaded |-> Empty, last |-> 0, rank |-> 0])
         /\ moduleCache' = r.cache
    /\ UNCHANGED <<CONSUMERS, reload, notOvl>>

\* the metadata resolutions that have settled, over all runs
RECURSIVE SettledCount(_)
SettledCount(rs) ==
    IF rs = <<>> THEN 0
    ELSE Cardinality({i \in DOMAIN Head(rs).loads : Head(rs).loads[i].metadata = "resolved"})
           + SettledCount(Tail(rs))

\* the metadata resolution of one consumer of one run settles
RunMetadataSettle(e, id, o) ==
    /\ e \in DOMAIN runs
    /\ runs[e].stage = "loading"
    /\ id \in DOMAIN runs[e].loads
    /\ runs[e].loads[id].metadata = "requested"
    /\ runs' = [runs EXCEPT ![e].loads[id] = MetadataSettled(runs[e].loads[id], o),
                            ![e].last = SettledCount(runs) + 1]
    /\ UNCHANGED <<conVars, notOvl>>

\* the runs that have published
Published == {e \in DOMAIN runs : runs[e].stage \in {"published", "done"}}

\* CONSUMERS = consumers, in the run of one event
RunPublish(e) ==
    /\ e \in DOMAIN runs
    /\ runs[e].stage = "loading"
    /\ LoadsSettled(runs[e].loads)
    /\ CONSUMERS' = getValues(runs[e].loads)
    /\ runs' = [runs EXCEPT ![e].stage = "published",
                            ![e].rank = Cardinality(Published) + 1]
    /\ UNCHANGED <<moduleCache, reload, notOvl>>

\* .then(() => unloadUnusedModules(typesBefore)), in the run of one event
RunUnload(e) ==
    /\ e \in DOMAIN runs
    /\ runs[e].stage = "published"
    /\ LET unused == UnusedTypes(runs[e].typesBefore, CONSUMERS)
       IN /\ moduleCache' = moduleCache \ unused
          /\ runs' = [runs EXCEPT ![e].stage = "done",
                                  ![e].unloaded = [t \in unused |-> 1]]
    /\ UNCHANGED <<CONSUMERS, reload, notOvl>>

NextOverlap ==
    \/ \E cfg \in OverlapConfigs : RunStart(cfg)
    \/ \E e \in {1, 2} : \E id \in ConsumerIds : \E o \in {"meta", "empty"} :
         RunMetadataSettle(e, id, o)
    \/ \E e \in {1, 2} : RunPublish(e)
    \/ \E e \in {1, 2} : RunUnload(e)

SpecOverlap == Init /\ [][NextOverlap]_vars

(***************************************************************************)
(* One 'change' event reaches both handlers: the Event Listener module's   *)
(* runs its synchronous part when the event is emitted, the Consumer       *)
(* Registry's defers its whole body to a promise reaction, which runs      *)
(* right after. The event carries the topology of the listeners and the    *)
(* Consumer Specs; the receivers of a listener are enabled consumers of    *)
(* the same configuration.                                                 *)
(***************************************************************************)
ChangeListeners ==
    {Empty} \cup
    { ListenerOrder[1] :> c : c \in { c \in SpecChoices(ListenerOrder[1]) :
                                        c.match \notin InvalidPatterns } }

ChangeConsumers ==
    {Empty} \cup { ConsumerOrder[1] :> c : c \in ConsumerChoices(ConsumerOrder[1]) }

ChangeInputs ==
    { in \in ChangeListeners \X ChangeConsumers :
        \A n \in DOMAIN in[1] : \A id \in in[1][n].receivers :
            id \in DOMAIN in[2] /\ in[2][id].enable }

\* configWorker emits 'change' once the handlers of the event before have
\* completed
ChangeEvent(cfg, ccfg) ==
    /\ CanDispatch
    /\ EmitRec(cfg)
    /\ ConsumersStart(ccfg)
    /\ UNCHANGED <<queued, pipe, fltVars, ingVars, frmVars, plgVars, valVars, clnVars, wrkVars, ovlVars>>

NextChange ==
    \/ \E in \in ChangeInputs : ChangeEvent(in[1], in[2])
    \/ \E i \in ObjIds : DestroySettle(i)
    \/ StartAll
    \/ \E i \in ObjIds : RestartOk(i)
    \/ \E i \in ObjIds : RestartFail(i)
    \/ \E i \in ObjIds : StopSettle(i)
    \/ StartDone
    \/ EmitDone
    \/ \E id \in ConsumerIds : \E o \in {"meta", "empty", "rejected"} : MetadataSettle(id, o)
    \/ Publish
    \/ UnloadUnusedModules

SpecChange == Init /\ [][NextChange]_vars

(***************************************************************************)
(* The methods of EventListener, called one at a time                      *)
(***************************************************************************)
\* the heap a method leaves becomes the state
Returns(H) ==
    /\ ~H.full
    /\ ~H.thrown
    /\ instances' = H.inst
    /\ registered' = H.reg
    /\ recv' = H.recv
    /\ UNCHANGED <<config, phase, log, queued, active, notRec>>

\* new EventListener(name)
Construct(n) ==
    /\ n \notin DOMAIN instances
    /\ Returns([Heap EXCEPT !.inst = With(@, n, NewEventListener(n))])

\* EventListener.get(name, port), updateConfig and updateRawDataHandling
GetAndConfigure(n, c) == Returns(UpdateListener(Heap, n :> c, n))

\* listener.detachMessageStream()
Detach(n) ==
    /\ n \in DOMAIN instances
    /\ Returns(detachMessageStream(Heap, n))

\* EventListener.remove(listener)
Remove(n) ==
    /\ n \in DOMAIN instances
    /\ Returns(EventListenerRemove(Heap, n))

NextMethods ==
    \/ \E n \in Names : Construct(n)
    \/ \E n \in Names : \E c \in ValidSpecs(n) : GetAndConfigure(n, c)
    \/ \E n \in Names : Detach(n)
    \/ \E n \in Names : Remove(n)

SpecMethods == Init /\ [][NextMethods]_vars

(***************************************************************************)
(* Process shutdown: the callback the module hands to onApplicationExit    *)
(***************************************************************************)
\* the callback, up to its return: every listener is removed, destroy() is
\* called on every registered receiver, and the promise of destroyAll is
\* left behind (the callback returns nothing)
OnApplicationExit ==
    /\ phase = "idle"
    /\ LET H == RemoveEach(Heap, DOMAIN instances)
           ids == {registered[p] : p \in DOMAIN registered}
       IN
       /\ instances' = H.inst
       /\ recv' = [i \in DOMAIN H.recv |->
                     IF i \in ids THEN [H.recv[i] EXCEPT !.state = "destroying"]
                     ELSE H.recv[i]]
    /\ phase' = "exit"
    /\ UNCHANGED <<config, registered, log, queued, active, notRec>>

\* receiver.destroy() of destroyAll settles, resolved or rejected
ExitDestroySettle(i, o) ==
    /\ phase = "exit"
    /\ i \in DOMAIN recv
    /\ recv[i].state = "destroying"
    /\ recv' = [recv EXCEPT ![i].state = IF o = "resolved" THEN "destroyed" ELSE "failed"]
    /\ log' = [log EXCEPT !.rejected = IF o = "resolved" THEN @ ELSE @ \cup {recv[i].port}]
    /\ UNCHANGED <<config, instances, registered, phase, queued, active, notRec>>

\* the reaction of destroyAll to allSettled: the registry is emptied, and the
\* callback's own reaction logs that everything is destroyed
DestroyAllSettled ==
    /\ phase = "exit"
    /\ DestroysSettled
    /\ log.report # "destroyed"
    /\ registered' = Empty
    /\ recv' = Empty
    /\ log' = [log EXCEPT !.report = "destroyed"]
    /\ UNCHANGED <<config, instances, phase, queued, active, notRec>>

\* the process exits: nothing holds it back once the callback has returned
ProcessExit ==
    /\ phase = "exit"
    /\ phase' = "exited"
    /\ UNCHANGED <<config, instances, registered, recv, log, queued, active, notRec>>

NextExit ==
    \/ Next
    \/ OnApplicationExit
    \/ \E i \in ObjIds : \E o \in {"resolved", "rejected"} : ExitDestroySettle(i, o)
    \/ DestroyAllSettled
    \/ ProcessExit

SpecExit == Init /\ [][NextExit]_vars

(***************************************************************************)
(* Reads on the socket of a receiver while the topology is replaced.       *)
(* MessageStream is modelled from the specification: a read is in flight   *)
(* from the arrival of its first bytes until its events are emitted as     *)
(* 'messages', and destroy() either lets it complete or closes the socket  *)
(* under it.                                                               *)
(***************************************************************************)
\* bytes of an event start to arrive on a connection to a bound port
ReadBegins(i) ==
    /\ phase = "idle"
    /\ i \in DOMAIN recv
    /\ isRunning(recv[i])
    /\ hasListeners(recv[i], "messages")
    /\ recv[i].read = "none"
    /\ recv' = [recv EXCEPT ![i].read = "inflight"]
    /\ UNCHANGED <<config, instances, registered, phase, log, queued, active, notRec>>

\* the read completes and the receiver emits 'messages': the events reach
\* the dataCallback of every listener attached, and nobody when none is
ReadCompletes(i) ==
    /\ i \in DOMAIN recv
    /\ recv[i].state \in {"running", "destroying"}
    /\ recv[i].read = "inflight"
    /\ recv' = [recv EXCEPT ![i].read =
                   IF hasListeners(recv[i], "messages") THEN "none" ELSE "lost"]
    /\ UNCHANGED <<config, instances, registered, phase, log, queued, active, notRec>>

\* destroy() closes the socket under the read
DestroyAborts(i) ==
    /\ i \in DOMAIN recv
    /\ recv[i].state = "destroying"
    /\ recv[i].read = "inflight"
    /\ recv' = [recv EXCEPT ![i].read = "aborted"]
    /\ UNCHANGED <<config, instances, registered, phase, log, queued, active, notRec>>

\* destroy() settles once no read is in flight
DrainSettle(i) ==
    /\ i \in DOMAIN recv
    /\ recv[i].read # "inflight"
    /\ DestroySettle(i)

NextDrain ==
    \/ Submit
    \/ Apply
    \/ Dispatch
    \/ \E i \in ObjIds : ReadBegins(i)
    \/ \E i \in ObjIds : ReadCompletes(i)
    \/ \E i \in ObjIds : DestroyAborts(i)
    \/ \E i \in ObjIds : DrainSettle(i)
    \/ StartAll
    \/ \E i \in ObjIds : RestartOk(i)
    \/ \E i \in ObjIds : RestartFail(i)
    \/ \E i \in ObjIds : StopSettle(i)
    \/ StartDone
    \/ EmitDone

SpecDrain == Init /\ [][NextDrain]_vars

(***************************************************************************)
(* The Azure_Log_Analytics consumer: one call of the exported function     *)
(***************************************************************************)
\* what the value under a key of the event's data is: an object or a primitive
Payloads == {"object", "number"}

\* the data of an event: its top-level keys in the order of Object.keys,
\* named by their position, each with its value
EventData == UNION { [1..n -> Payloads] : n \in 0..MaxKeys }

\* a makeRequest that resolves for every response, whatever its status
makeRequestAnyStatus(o) ==
    IF o = "error" THEN [state |-> "rejected", reason |-> "error"]
    ELSE [state |-> "resolved", reason |-> ""]

\* the callback of request.post inside makeRequest: what the promise of the
\* request becomes for a transport error and for a response
makeRequest(o) ==
    IF o = "error" THEN [state |-> "rejected", reason |-> "error"]
    ELSE IF o = "200" THEN [state |-> "resolved", reason |-> ""]
    ELSE [state |-> "rejected", reason |-> "response"]

\* context.event.data as the forEach finds it: for an event that is not
\* systemInfo the copy of the data under the one key of the event's type
WrappedData(type, data) ==
    IF type # "systemInfo"
      THEN <<[key |-> type, value |-> "object"]>>
      ELSE [k \in 1..Len(data) |-> [key |-> ToString(k), value |-> data[k]]]

\* the requests one call makes: one per key of the data of a systemInfo
\* event, one for an event of any other type
RequestsOf(type, keys) == IF type = "systemInfo" THEN keys ELSE 1

\* the body of the request for one key: JSON.stringify of the value, a
\* value that is not an object put in an object first
BodyOf(e) == [key |-> e.key, data |-> e.value, boxed |-> e.value # "object"]

\* the Log-Type header of the request for one key
LogTypeOf(e) == <<"F5Telemetry", e.key>>

\* module.exports(context) up to its return: a request is posted per key,
\* with the headers and the body request.post is handed for that key; a
\* request.post that throws inside the executor of makeRequest's promise
\* rejects that promise at once
AzureConsumer(type, data, throwing) ==
    /\ azure.stage = "idle"
    /\ throwing \subseteq 1..RequestsOf(type, Len(data))
    /\ LET entries == WrappedData(type, data) IN
       azure' = [stage |-> "called",
                 event |-> [type |-> type, data |-> data],
                 requests |-> [k \in 1..Len(entries) |->
                                 [state |-> IF k \in throwing THEN "rejected" ELSE "pending",
                                  reason |-> IF k \in throwing THEN "thrown" ELSE "",
                                  status |-> "",
                                  logType |-> LogTypeOf(entries[k]),
                                  body |-> BodyOf(entries[k])]],
                 promise |-> "pending",
                 logged |-> ""]
    /\ UNCHANGED notPlg

\* the request library calls back for request k
RequestCallback(k, o) ==
    /\ k \in DOMAIN azure.requests
    /\ azure.requests[k].state = "pending"
    /\ azure' = [azure EXCEPT !.requests[k].state = makeRequest(o).state,
                              !.requests[k].reason = makeRequest(o).reason,
                              !.requests[k].status = o]
    /\ UNCHANGED notPlg

\* Promise.all(promises) settles, at the first rejection or when every
\* request resolved; then() logs 'success', catch() logs the error, and the
\* promise the consumer returned resolves with what the reaction returned
PromiseAllSettles ==
    /\ azure.stage = "called"
    /\ \/ \E k \in DOMAIN azure.requests : azure.requests[k].state = "rejected"
       \/ \A k \in DOMAIN azure.requests : azure.requests[k].state = "resolved"
    /\ azure' = [azure EXCEPT
                   !.stage = "settled",
                   !.logged = IF \E k \in DOMAIN azure.requests :
                                     azure.requests[k].state = "rejected"
                                THEN "error" ELSE "success",
                   !.promise = "resolved"]
    /\ UNCHANGED notPlg

NextAzure ==
    \/ \E type \in {"systemInfo", "LTM"} : \E data \in EventData :
         \E throwing \in SUBSET (1..MaxKeys) : AzureConsumer(type, data, throwing)
    \/ \E k \in 1..MaxKeys : \E o \in {"error", "200", "500"} : RequestCallback(k, o)
    \/ PromiseAllSettles

SpecAzure == Init /\ [][NextAzure]_vars

(***************************************************************************)
(* The declaration validator, as its unit tests pin it down. The schema    *)
(* and its keywords are not part of the sources at hand: the validator is  *)
(* modelled from what the tests expect of it.                              *)
(***************************************************************************)
Digits == <<"0", "1", "2", "3", "4", "5", "6", "7", "8", "9">>

isDigit(ch) == \E i \in DOMAIN Digits : Digits[i] = ch

DigitValue(ch) == (CHOOSE i \in DOMAIN Digits : Digits[i] = ch) - 1

HoursOf(t) == DigitValue(t[1]) * 10 + DigitValue(t[2])

MinutesOf(t) == DigitValue(t[4]) * 10 + DigitValue(t[5])

\* the pattern of a time string: HH:MM, hours up to 23, minutes up to 59
matchesTimePattern(t) ==
    /\ Len(t) = 5
    /\ t[3] = ":"
    /\ \A i \in {1, 2, 4, 5} : isDigit(t[i])
    /\ HoursOf(t) <= 23
    /\ MinutesOf(t) <= 59

\* minutes since midnight
timeStrToMinutes(t) == HoursOf(t) * 60 + MinutesOf(t)

\* the least size of interval.timeWindow, in minutes ('2hr min')
timeWindowMinSize == 120

\* the size of a time window without the wrap-around past midnight
timeWindowSizeNoWrap(start, end) == timeStrToMinutes(end) - timeStrToMinutes(start)

\* the size of a time window, from start forward to end
timeWindowSize(start, end) ==
    LET size == timeStrToMinutes(end) - timeStrToMinutes(start) IN
    IF size < 0 THEN size + 24 * 60 ELSE size

\* Telemetry_iHealth_Poller: interval.timeWindow
validateTimeWindow(w) ==
    /\ matchesTimePattern(w.start)
    /\ matchesTimePattern(w.end)
    /\ timeWindowSize(w.start, w.end) >= timeWindowMinSize

TimeStrings ==
    { <<a, b, ":", c, d>> : a \in {"0", "2"}, b \in {"0", "1", "2", "3"},
                            c \in {"0", "5"}, d \in {"0", "9"} }
      \cup { <<"3", "4", "5", "6">>, <<"6", "7", "8", "9">> }

TimeWindows == [start : TimeStrings, end : TimeStrings]

\* the time windows of the tests and what the tests expect of the validator
TimeWindowTests ==
    { [start |-> <<"0", "0", ":", "0", "0">>, end |-> <<"0", "3", ":", "0", "0">>,
       fulfilled |-> TRUE],
      [start |-> <<"3", "4", "5", "6">>, end |-> <<"6", "7", "8", "9">>,
       fulfilled |-> FALSE],
      [start |-> <<"2", "3", ":", "0", "0">>, end |-> <<"0", "0", ":", "5", "9">>,
       fulfilled |-> FALSE] }

\* Telemetry_Consumer of type AWS_CloudWatch: the properties a declaration
\* may carry besides type and region
CloudWatchProperties ==
    {"dataType", "logGroup", "logStream", "metricNamespace", "maxAwsLogBatchSize",
     "username", "passphrase"}

CloudWatchDeclaration(S, dataType, size) ==
    [p \in S \cup {"type", "region"} |->
       IF p = "dataType" THEN dataType
       ELSE IF p = "maxAwsLogBatchSize" THEN size
       ELSE IF p = "type" THEN "AWS_CloudWatch"
       ELSE p]

CloudWatchDeclarations ==
    { CloudWatchDeclaration(S, dataType, size) :
        S \in SUBSET CloudWatchProperties,
        dataType \in {"logs", "metrics", "newlyInvented"},
        size \in {0, 77} }

has(d, p) == p \in DOMAIN d

\* the defaults the validator fills in: dataType 'logs', and for logs
\* maxAwsLogBatchSize 100
withDefaults(d) ==
    LET d1 == IF has(d, "dataType") THEN d ELSE With(d, "dataType", "logs") IN
    IF d1["dataType"] = "logs" /\ ~has(d1, "maxAwsLogBatchSize")
      THEN With(d1, "maxAwsLogBatchSize", 100)
      ELSE d1

\* the 'logs' schema of the oneOf
matchesLogs(d) ==
    /\ d["dataType"] = "logs"
    /\ has(d, "logGroup") /\ has(d, "logStream")
    /\ ~has(d, "metricNamespace")
    /\ d["maxAwsLogBatchSize"] >= 1 /\ d["maxAwsLogBatchSize"] <= 10000

\* a oneOf whose 'metrics' schema lets the properties of logs pass
matchesMetricsLoose(d) ==
    /\ d["dataType"] = "metrics"
    /\ has(d, "metricNamespace")

\* the 'metrics' schema of the oneOf
matchesMetrics(d) ==
    /\ d["dataType"] = "metrics"
    /\ has(d, "metricNamespace")
    /\ ~has(d, "logGroup") /\ ~has(d, "logStream")
    /\ ~has(d, "maxAwsLogBatchSize")

\* AWS_CloudWatch: exactly one schema of the oneOf, and username and
\* passphrase together or not at all
validateCloudWatch(d) ==
    /\ matchesLogs(d) # matchesMetrics(d)
    /\ has(d, "username") <=> has(d, "passphrase")

\* the declarations of the tests and what the tests expect of the validator
CloudWatchTests ==
    { [decl |-> CloudWatchDeclaration({"dataType", "username"}, "metrics", 0),
       fulfilled |-> FALSE],
      [decl |-> CloudWatchDeclaration({"dataType", "passphrase"}, "metrics", 0),
       fulfilled |-> FALSE],
      [decl |-> CloudWatchDeclaration({"logGroup", "logStream"}, "logs", 0),
       fulfilled |-> TRUE],
      [decl |-> CloudWatchDeclaration({"logGroup", "logStream", "metricNamespace"}, "logs", 0),
       fulfilled |-> FALSE],
      [decl |-> CloudWatchDeclaration({"dataType", "metricNamespace"}, "metrics", 0),
       fulfilled |-> TRUE],
      [decl |-> CloudWatchDeclaration({"dataType", "metricNamespace", "logStream", "logGroup"},
                                      "metrics", 0),
       fulfilled |-> FALSE],
      [decl |-> CloudWatchDeclaration({"dataType", "metricNamespace", "maxAwsLogBatchSize"},
                                      "metrics", 77),
       fulfilled |-> FALSE] }

InitPoller ==
    /\ InitRec /\ InitPipe /\ InitFlt /\ InitIng /\ InitFrm /\ InitCon /\ InitPlg
    /\ InitCln /\ InitWrk /\ InitOvl
    /\ decl \in { [stage |-> "input", class |-> "Telemetry_iHealth_Poller",
                   body |-> w, valid |-> FALSE, out |-> Empty] : w \in TimeWindows }

InitCloudWatch ==
    /\ InitRec /\ InitPipe /\ InitFlt /\ InitIng /\ InitFrm /\ InitCon /\ InitPlg
    /\ InitCln /\ InitWrk /\ InitOvl
    /\ decl \in { [stage |-> "input", class |-> "Telemetry_Consumer",
                   body |-> d, valid |-> FALSE, out |-> Empty] :
                    d \in CloudWatchDeclarations }

\* declValidator(data): fulfilled with the expanded declaration, or rejected
Validate ==
    /\ decl.stage = "input"
    /\ decl' = IF decl.class = "Telemetry_iHealth_Poller"
                 THEN [decl EXCEPT !.stage = "validated",
                                   !.valid = validateTimeWindow(decl.body),
                                   !.out = IF validateTimeWindow(decl.body)
                                             THEN decl.body ELSE Empty]
                 ELSE [decl EXCEPT !.stage = "validated",
                                   !.valid = validateCloudWatch(withDefaults(decl.body)),
                                   !.out = IF validateCloudWatch(withDefaults(decl.body))
                                             THEN withDefaults(decl.body) ELSE Empty]
    /\ UNCHANGED notVal

NextValidate == Validate

SpecPoller == InitPoller /\ [][NextValidate]_vars

SpecCloudWatch == InitCloudWatch /\ [][NextValidate]_vars

(***************************************************************************)
(* scripts/outputExampleCleaner.js: Output.clean on a JSON document. A     *)
(* JSON value is a record of its type t and, by type, its number n, its    *)
(* string s, its elements a or its members o.                              *)
(***************************************************************************)
DEFAULT_INTEGER == 0

DEFAULT_TIMESTAMP == "2019-01-01T01:01:01Z"

TIMESTAMP_KEYS == {"systemTimestamp", "expirationString", "cycleStart", "cycleEnd"}

JsonInt(n) == [t |-> "int", n |-> n, s |-> "", a |-> <<>>, o |-> Empty]

JsonStr(str) == [t |-> "str", n |-> 0, s |-> str, a |-> <<>>, o |-> Empty]

JsonNull == [t |-> "null", n |-> 0, s |-> "", a |-> <<>>, o |-> Empty]

JsonArray(elems) == [t |-> "arr", n |-> 0, s |-> "", a |-> elems, o |-> Empty]

JsonObject(members) == [t |-> "obj", n |-> 0, s |-> "", a |-> <<>>, o |-> members]

\* the order of Object.keys: the order in which the members were written
KeyOrder == <<"a", "systemTimestamp">>

IsMember(d, k) == k \in DOMAIN d.o

KeysOf(d) == SelectSeq(KeyOrder, LAMBDA k : IsMember(d, k))

\* typeof data === 'object' && !Array.isArray(data): objects, and null
isObjectNotArray(d) == d.t \in {"obj", "null"}

\* Date.parse of a string, in seconds: not a number for a text that is no date
DateParse(d) ==
    IF d.s = "2020-05-05T05:05:05Z" THEN [nan |-> FALSE, time |-> 1588655105]
    ELSE IF d.s = DEFAULT_TIMESTAMP THEN [nan |-> FALSE, time |-> 1546304461]
    ELSE IF d.s = "1970-01-01T00:00:00Z" THEN [nan |-> FALSE, time |-> 0]
    ELSE [nan |-> TRUE, time |-> 0]

\* the truthiness of what Date.parse returns
DateParseTruthy(d) == ~DateParse(d).nan /\ DateParse(d).time # 0

\* Output.resetIntegers(data): the data it leaves, and whether Object.keys
\* threw on the way (Object.keys(null) is a TypeError)
RECURSIVE resetIntegers(_), resetIntegersEach(_, _)
resetIntegers(d) ==
    IF ~isObjectNotArray(d) THEN [thrown |-> FALSE, data |-> d]
    ELSE IF d.t = "null" THEN [thrown |-> TRUE, data |-> d]
    ELSE resetIntegersEach(d, KeysOf(d))

resetIntegersEach(d, ks) ==
    IF ks = <<>> THEN [thrown |-> FALSE, data |-> d]
    ELSE LET k == Head(ks) IN
         IF d.o[k].t = "int"
           THEN resetIntegersEach([d EXCEPT !.o[k] = JsonInt(DEFAULT_INTEGER)], Tail(ks))
           ELSE LET r == resetIntegers(d.o[k]) IN
                IF r.thrown
                  THEN [thrown |-> TRUE, data |-> [d EXCEPT !.o[k] = r.data]]
                  ELSE resetIntegersEach([d EXCEPT !.o[k] = r.data], Tail(ks))

\* Output.resetTimestamps(data)
RECURSIVE resetTimestamps(_), resetTimestampsEach(_, _)
resetTimestamps(d) ==
    IF ~isObjectNotArray(d) THEN [thrown |-> FALSE, data |-> d]
    ELSE IF d.t = "null" THEN [thrown |-> TRUE, data |-> d]
    ELSE resetTimestampsEach(d, KeysOf(d))

resetTimestampsEach(d, ks) ==
    IF ks = <<>> THEN [thrown |-> FALSE, data |-> d]
    ELSE LET k == Head(ks) IN
         IF k \in TIMESTAMP_KEYS /\ DateParseTruthy(d.o[k])
           THEN resetTimestampsEach([d EXCEPT !.o[k] = JsonStr(DEFAULT_TIMESTAMP)], Tail(ks))
           ELSE LET r == resetTimestamps(d.o[k]) IN
                IF r.thrown
                  THEN [thrown |-> TRUE, data |-> [d EXCEPT !.o[k] = r.data]]
                  ELSE resetTimestampsEach([d EXCEPT !.o[k] = r.data], Tail(ks))

\* the strings a document holds under a timestamp key
TimestampStrings ==
    {JsonStr("text"), JsonStr("2020-05-05T05:05:05Z"), JsonStr("1970-01-01T00:00:00Z")}

\* the JSON values of a nesting depth: scalars, arrays of up to one element,
\* and objects with a plain member and a member under a timestamp key
RECURSIVE JsonValues(_)
JsonValues(depth) ==
    IF depth = 0
      THEN {JsonInt(5), JsonStr("text"), JsonNull}
      ELSE LET below == JsonValues(depth - 1) IN
           below
             \cup {JsonArray(<<>>)} \cup {JsonArray(<<v>>) : v \in below}
             \cup {JsonObject(Empty)}
             \cup {JsonObject("a" :> v) : v \in below}
             \cup {JsonObject("systemTimestamp" :> ts) : ts \in TimestampStrings}
             \cup {JsonObject("a" :> v @@ "systemTimestamp" :> ts) :
                     v \in below, ts \in TimestampStrings}

\* the documents of an input file: objects
Documents == {d \in JsonValues(MaxDepth) : d.t = "obj"}

InitCleaner ==
    /\ InitRec /\ InitPipe /\ InitFlt /\ InitIng /\ InitFrm /\ InitCon
    /\ InitPlg /\ InitVal /\ InitWrk /\ InitOvl
    /\ cleaner \in {[stage |-> "new", inputData |-> d, thrown |-> FALSE] : d \in Documents}

\* Output.clean(): resetIntegers, then resetTimestamps, then printOutput; an
\* exception ends it where it is thrown
Clean ==
    /\ cleaner.stage = "new"
    /\ LET r1 == resetIntegers(cleaner.inputData)
           r2 == resetTimestamps(r1.data)
       IN  cleaner' = IF r1.thrown
                        THEN [stage |-> "cleaned", inputData |-> r1.data, thrown |-> TRUE]
                        ELSE [stage |-> "cleaned", inputData |-> r2.data,
                              thrown |-> r2.thrown]
    /\ UNCHANGED notCln

NextCleaner == Clean

SpecCleaner == InitCleaner /\ [][NextCleaner]_vars

(***************************************************************************)
(* The stats RestWorker: onGet calls systemStats.collect() and answers the *)
(* rest operation in the reactions on its promise. systemStats and         *)
(* util.restOperationResponder are modelled from what onGet expects of     *)
(* them: collect returns a promise that resolves with the statistics or    *)
(* rejects with an error, the responder completes the operation with the   *)
(* status and the body it is given.                                        *)
(***************************************************************************)
MaxGets == 3

Statistics == {"s1", "s2"}

CollectErrors == {"e1", "e2"}

\* onGet(restOperation) up to its return: collect() is called
OnGet ==
    /\ Len(worker.requests) < MaxGets
    /\ worker' = [worker EXCEPT !.requests =
                    Append(@, [collect |-> "pending", value |-> "",
                               stage |-> "collecting", responses |-> <<>>])]
    /\ UNCHANGED notWrk

\* the promise of systemStats.collect() settles
CollectSettles(i, o, v) ==
    /\ i \in DOMAIN worker.requests
    /\ worker.requests[i].collect = "pending"
    /\ v \in (IF o = "resolved" THEN Statistics ELSE CollectErrors)
    /\ worker' = [worker EXCEPT !.requests[i].collect = o,
                                !.requests[i].value = v,
                                !.requests[i].stage = "settled"]
    /\ UNCHANGED notWrk

\* a chain whose first reaction runs whatever collect() came to
ThenRunsAlways(r) == TRUE

\* .then((res) => ...) reacts to a resolution only
ThenRuns(r) == r.collect = "resolved"

\* (res) => util.restOperationResponder(restOperation, 200, res)
ThenReaction(i) ==
    /\ i \in DOMAIN worker.requests
    /\ worker.requests[i].stage = "settled"
    /\ ThenRuns(worker.requests[i])
    /\ worker' = [worker EXCEPT
                    !.requests[i].responses =
                        Append(@, [status |-> 200, body |-> <<worker.requests[i].value>>]),
                    !.requests[i].stage = "done"]
    /\ UNCHANGED notWrk

\* (e) => util.restOperationResponder(restOperation, 500,
\* `systemStats.collect error: ${e}`): the rejection passed the then
CatchReaction(i) ==
    /\ i \in DOMAIN worker.requests
    /\ worker.requests[i].stage = "settled"
    /\ worker.requests[i].collect = "rejected"
    /\ worker' = [worker EXCEPT
                    !.requests[i].responses =
                        Append(@, [status |-> 500,
                                   body |-> <<"systemStats.collect error: ",
                                              worker.requests[i].value>>]),
                    !.requests[i].stage = "done"]
    /\ UNCHANGED notWrk

NextWorker ==
    \/ OnGet
    \/ \E i \in 1..MaxGets : \E o \in {"resolved", "rejected"} :
         \E v \in Statistics \cup CollectErrors : CollectSettles(i, o, v)
    \/ \E i \in 1..MaxGets : ThenReaction(i)
    \/ \E i \in 1..MaxGets : CatchReaction(i)

SpecWorker == Init /\ [][NextWorker]_vars

TypeOK ==
    /\ DOMAIN config \subseteq Names
    /\ DOMAIN instances \subseteq Names
    /\ DOMAIN registered \subseteq Ports
    /\ DOMAIN recv \subseteq ObjIds
    /\ phase \in {"idle", "stopping", "starting", "done", "thrown", "exit", "exited"}
    /\ queued \in 0..MaxQueue
    /\ \A p \in DOMAIN registered : registered[p] \in DOMAIN recv
    /\ flt.stage \in {"idle", "input", "built", "thrown", "applied"}

(***************************************************************************)
(* In every reachable state at most one receiver object exists for a port  *)
(* number, and every attached listener is attached to the receiver         *)
(* registered for that receiver's port, with its message callback on it.   *)
(***************************************************************************)
AtMostOneReceiverPerPort ==
    /\ \A p \in Ports :
         Cardinality({i \in DOMAIN recv : recv[i].port = p /\ ~isDestroyed(recv[i])}) <= 1
    /\ \A n \in DOMAIN instances :
         LET i == instances[n].messageStream IN
         i # 0 =>
           /\ i \in DOMAIN recv
           /\ recv[i].port \in DOMAIN registered
           /\ registered[recv[i].port] = i
           /\ n \in recv[i].messages

(***************************************************************************)
(* C1, as claimed: when two or more listener specs of the topology declare *)
(* the same port, reconciliation yields one receiver for that port to      *)
(* which all of those listeners are attached, and in every reachable state *)
(* there are never two live receivers for one port number.                 *)
(***************************************************************************)
C1_SharedBoundPort ==
    /\ AtMostOneReceiverPerPort
    /\ phase \in {"done", "thrown"} =>
         \A n \in DOMAIN config : \A m \in DOMAIN config \ {n} :
           (/\ config[n].enable /\ config[m].enable
            /\ config[n].port = config[m].port)
             => /\ config[n].port \in DOMAIN registered
                /\ n \in DOMAIN instances
                /\ m \in DOMAIN instances
                /\ instances[n].messageStream = registered[config[n].port]
                /\ instances[m].messageStream = registered[config[n].port]

(***************************************************************************)
(* C2. Only one reconciliation runs at a time: a pass starts only when no  *)
(* pass is in progress and no destroy, restart or stop of the pass before  *)
(* it is pending, also when the event arrived while that pass was running. *)
(***************************************************************************)
PassSettled ==
    /\ phase = "idle"
    /\ \A i \in DOMAIN recv : recv[i].state \notin {"destroying", "starting", "stopping"}

C4_RemovedListenersGone ==
    /\ \A n \in DOMAIN instances : n \in DOMAIN config /\ config[n].enable
    /\ \A i \in DOMAIN recv :
         recv[i].messages \cup recv[i].rawData \subseteq Attached(i)

C4_Witness ==
    /\ phase = "stopping"
    /\ "L1" \notin DOMAIN config
    /\ "L2" \in DOMAIN config /\ ~config["L2"].enable
    /\ DOMAIN instances = {}
    /\ Cardinality({i \in DOMAIN recv : recv[i].state = "destroying"}) = 2

(***************************************************************************)
(* C5, as claimed: after a reconciliation every listener spec that is      *)
(* present and enabled has a listener registered under its name, attached  *)
(* to the registered receiver of its port, with the options computed from  *)
(* the spec.                                                               *)
(***************************************************************************)
Configured(n) ==
    /\ n \in DOMAIN instances
    /\ config[n].port \in DOMAIN registered
    /\ instances[n].messageStream = registered[config[n].port]
    /\ LET o == OptionsOf(config[n]) IN
       /\ instances[n].actions = o.actions
       /\ instances[n].destinationIds = o.destinationIds
       /\ instances[n].filterFunc = o.filterFunc
       /\ instances[n].id = o.id
       /\ instances[n].tags = o.tags
       /\ instances[n].tracer = o.tracer
       /\ instances[n].inputTracer = o.inputTracer

C5_EnabledSpecsConfigured ==
    phase \in {"done", "thrown"} =>
      \A n \in DOMAIN config : config[n].enable => Configured(n)

(***************************************************************************)
(* C6. A step of a reconciliation that keeps a listener on the port of the *)
(* running receiver it is attached to keeps the listener object and the    *)
(* receiver: the receiver stays registered for the port and running, and   *)
(* the listener stays attached to it.                                      *)
(***************************************************************************)
C6_ReconfiguredInPlace ==
    [][\A n \in DOMAIN instances :
         LET i == instances[n].messageStream IN
         (/\ i # 0
          /\ isRunning(recv[i])
          /\ recv[i].port \in DOMAIN registered /\ registered[recv[i].port] = i
          /\ n \in DOMAIN config' /\ config'[n].enable
          /\ config'[n].port = recv[i].port)
         => /\ n \in DOMAIN instances'
            /\ n \notin log'.created \ log.created
            /\ instances'[n].messageStream = i
            /\ i \in DOMAIN recv' /\ isRunning(recv'[i])
            /\ recv[i].port \in DOMAIN registered' /\ registered'[recv[i].port] = i]_vars

C6_Witness ==
    /\ phase = "stopping"
    /\ log.created = {}
    /\ \E n \in DOMAIN instances :
         LET i == instances[n].messageStream IN
         /\ i # 0 /\ isRunning(recv[i])
         /\ instances[n].inputTracer = "input"
         /\ recv[i].messages = {n} /\ recv[i].rawData = {n}
         /\ ~recv[i].rawDataForwarding

(***************************************************************************)
(* C7. When every bind attempt for a port fails, the receiver of the port  *)
(* is stopped, none is left half-open, and the reconciliation reports a    *)
(* failure instead of success.                                             *)
(***************************************************************************)
C7_BindFailureStopsAndReports ==
    phase = "done" =>
      /\ \A p \in log.rejected :
           p \in DOMAIN registered /\ recv[registered[p]].state = "stopped"
      /\ \A i \in DOMAIN recv : recv[i].state # "failed"
      /\ log.rejected # {} => log.report = "failure"

C7_Witness ==
    /\ phase = "done"
    /\ log.rejected # {}
    /\ log.report = "failure"

(***************************************************************************)
(* C8. A bind failure on one port does not end the pass for the others:    *)
(* when the pass reports, every registered port with listeners is either   *)
(* running or among the reported failures, and the reported failures are   *)
(* exactly the ports whose binds failed.                                   *)
(***************************************************************************)
C8_IndependentPorts ==
    phase = "done" =>
      /\ \A p \in DOMAIN registered :
           \/ isRunning(recv[registered[p]])
           \/ recv[registered[p]].state = "stopped" /\ p \in log.rejected
      /\ log.rejected = {p \in DOMAIN registered : ~isRunning(recv[registered[p]])}
      /\ log.report = (IF log.rejected = {} THEN "success" ELSE "failure")

C8_Witness ==
    /\ phase = "starting"
    /\ \E i \in DOMAIN recv : \E j \in DOMAIN recv :
         /\ recv[i].state = "stopped" /\ recv[i].port \in log.rejected
         /\ recv[j].state = "starting"

(***************************************************************************)
(* C9, as claimed: whenever a step of a pass fails, the unbinds of ports   *)
(* left without listeners still complete and the remaining listeners of    *)
(* the topology are still processed.                                       *)
(***************************************************************************)
C9_NeverPartiallyTornDown ==
    phase \in {"done", "thrown"} =>
      /\ \A i \in DOMAIN recv : Attached(i) # {}
      /\ \A n \in DOMAIN config :
           (config[n].enable /\ ~RegExpThrows(config[n].match)) => Configured(n)

(***************************************************************************)
(* C10. Partial-failure isolation: when the pipeline call for a record has *)
(* completed, every destination consumer has been invoked (or refused the  *)
(* record by its own filter) whatever the others did, and the call has     *)
(* completed without failing.                                              *)
(***************************************************************************)
C10_PartialFailureIsolation ==
    pipe.stage \in {"settled", "done"} =>
      /\ \A c \in pipe.destinationIds : pipe.verdict[c] \in Verdicts
      /\ pipe.outcome = "resolved"

C10_Witness ==
    /\ pipe.stage = "settled"
    /\ pipe.destinationIds = {"A", "B", "C"}
    /\ Failed(pipe.verdict["B"])
    /\ pipe.verdict["A"] = "delivered"
    /\ pipe.verdict["C"] = "delivered"
    /\ pipe.outcome = "resolved"

(***************************************************************************)
(* C13, as claimed: the filter built from a Listener Spec accepts a record *)
(* if and only if at least one classification key holds a value that       *)
(* matches the pattern case-insensitively; without a match pattern no      *)
(* filter is built and every record is accepted.                           *)
(***************************************************************************)
C13_AcceptsIffSomeKeyMatches ==
    /\ flt.stage \in {"built", "applied"} =>
         (flt.match = "" <=> flt.func = "null")
    /\ flt.stage = "applied" =>
         (flt.result <=>
            \/ flt.match = ""
            \/ \E k \in DOMAIN flt.data : test(RegExp(flt.match), flt.data[k]))

(***************************************************************************)
(* C13, amended: the filter accepts a record if and only if at least one   *)
(* classification key holds a non-empty value that matches the pattern     *)
(* case-insensitively (pattern err accepts level ERROR and rejects level   *)
(* info); without a match pattern no filter is built and every record is   *)
(* accepted.                                                               *)
(***************************************************************************)
C13_AcceptsIffSomeTruthyValueMatches ==
    /\ flt.stage \in {"built", "applied"} =>
         (flt.match = "" <=> flt.func = "null")
    /\ flt.stage = "applied" =>
         /\ flt.result <=>
              \/ flt.match = ""
              \/ \E k \in DOMAIN flt.data :
                   flt.data[k] # <<>> /\ test(RegExp(flt.match), flt.data[k])
         /\ (flt.match = "err" /\ \E k \in DOMAIN flt.data : flt.data[k] = ERROR)
              => flt.result
         /\ (flt.match = "err" /\ \A k \in DOMAIN flt.data : flt.data[k] = info)
              => ~flt.result

C13_Witness ==
    /\ flt.stage = "applied"
    /\ flt.match = "err"
    /\ DOMAIN flt.data = {"level", "virtual_name"}
    /\ flt.data["level"] = info
    /\ flt.data["virtual_name"] = ERROR
    /\ flt.result

\* the events of a batch that are not empty once trimmed and that the filter
\* of the listener, as configured when the batch arrived, accepts
Survives(f, e) ==
    /\ trim(e) # <<>>
    /\ f \in {"null", "undefined"} \/ filterFunc(f, normalizeEvent(trim(e)))

SurvivorsOf(batch) ==
    LET keep(e) == Survives(batch.filterFunc, e)
    IN SelectSeq(batch.events, keep)

CallsOf(b) == {i \in 1..Len(calls) : calls[i].batch = b}

(***************************************************************************)
(* C11. A dataPipeline.process call that fails is logged and its failure   *)
(* goes no further: the promise the handler keeps for the event is         *)
(* resolved, every other surviving event of the batch has its own call,    *)
(* and the promise the handler returned to the message stream never        *)
(* rejects.                                                                *)
(***************************************************************************)
C11_PipelineFailureLoggedNotPropagated ==
    /\ \A i \in 1..Len(calls) :
         /\ calls[i].outcome = "rejected" => calls[i].logged /\ calls[i].p = "resolved"
         /\ calls[i].p # "rejected"
         /\ Cardinality(CallsOf(calls[i].batch)) = Len(SurvivorsOf(arrived[calls[i].batch]))
    /\ \A b \in 1..Len(returned) :
         /\ returned[b] \in {"pending", "resolved"}
         /\ returned[b] = "resolved" => \A i \in CallsOf(b) : calls[i].p = "resolved"

C11_Witness ==
    \E b \in 1..Len(returned) :
      /\ returned[b] = "resolved"
      /\ \E i, j \in CallsOf(b) :
           /\ calls[i].outcome = "rejected" /\ calls[i].logged
           /\ calls[j].outcome = "resolved"

(***************************************************************************)
(* C12. For every batch given to the listener the pipeline is called       *)
(* exactly once for each event that is not empty after trimming and that   *)
(* passes the listener's filter (or there is no filter), and never for an  *)
(* event that is empty after trimming or that fails the filter.            *)
(***************************************************************************)
C12_OneCallPerSurvivingEvent ==
    /\ Len(returned) = Len(arrived)
    /\ \A i \in 1..Len(calls) : calls[i].batch \in 1..Len(arrived)
    /\ \A b \in 1..Len(arrived) :
         /\ \A e \in Events :
              Cardinality({i \in CallsOf(b) : calls[i].data.data = trim(e)}) =
                IF Survives(arrived[b].filterFunc, e)
                  THEN Cardinality({k \in 1..Len(arrived[b].events) :
                                      trim(arrived[b].events[k]) = trim(e)})
                  ELSE 0
         /\ \A i \in CallsOf(b) :
              \E k \in 1..Len(arrived[b].events) :
                /\ calls[i].data = normalizeEvent(trim(arrived[b].events[k]))
                /\ Survives(arrived[b].filterFunc, arrived[b].events[k])

C12_Witness ==
    \E b \in 1..Len(arrived) :
      /\ arrived[b].filterFunc = "err"
      /\ Len(arrived[b].events) = 3
      /\ Cardinality(CallsOf(b)) = 1

RECURSIVE SurvivorsInOrder(_)
SurvivorsInOrder(batches) ==
    IF batches = <<>> THEN <<>>
    ELSE SurvivorsInOrder(SubSeq(batches, 1, Len(batches) - 1))
           \o SurvivorsOf(batches[Len(batches)])

(***************************************************************************)
(* C14. The pipeline calls are started in the order in which the events    *)
(* arrived, within one batch and across the successive batches of the      *)
(* connection.                                                             *)
(***************************************************************************)
C14_CallsInArrivalOrder ==
    LET expected == SurvivorsInOrder(arrived)
    IN /\ Len(calls) = Len(expected)
       /\ \A i \in 1..Len(calls) : calls[i].data.data = trim(expected[i])
       /\ \A i, j \in 1..Len(calls) : i < j => calls[i].batch <= calls[j].batch

C14_Witness ==
    /\ Len(arrived) = 2
    /\ Len(calls) = 4
    /\ calls[1].data.data = ERROR
    /\ calls[2].data.data = info
    /\ calls[3].data.data = info
    /\ calls[4].data.data = ERROR

RECURSIVE Concat(_)
Concat(ss) == IF ss = <<>> THEN <<>> ELSE Head(ss) \o Concat(Tail(ss))

\* the positions of the line feeds in a byte sequence
LineFeeds(bytes) == {i \in 1..Len(bytes) : bytes[i] = "\n"}

\* the lines of a byte sequence taken whole: the k-th event lies between the
\* (k-1)-th and the k-th line feed
EventsOf(bytes) ==
    LET nl == LineFeeds(bytes)
        before(i) == {j \in nl : j < i}
        first(i) == IF before(i) = {} THEN 1
                    ELSE (CHOOSE j \in before(i) : \A h \in before(i) : h <= j) + 1
        pos(k) == CHOOSE i \in nl : Cardinality(before(i)) = k - 1
    IN [k \in 1..Cardinality(nl) |-> StripCR(SubSeq(bytes, first(pos(k)), pos(k) - 1))]

\* the bytes after the last line feed
PartialOf(bytes) ==
    LET nl == LineFeeds(bytes)
    IN IF nl = {} THEN bytes
       ELSE SubSeq(bytes, (CHOOSE j \in nl : \A h \in nl : h <= j) + 1, Len(bytes))

(***************************************************************************)
(* C15. Framing is independent of chunking: whatever the chunks, the       *)
(* events emitted are the lines of the bytes received so far taken whole,  *)
(* and the partial line after the last delimiter is retained, neither      *)
(* dropped nor emitted, until a later chunk completes it.                  *)
(***************************************************************************)
C15_FramingIndependentOfChunking ==
    /\ emitted = EventsOf(Concat(chunks))
    /\ buffer = PartialOf(Concat(chunks))

C15_Witness ==
    /\ chunks = << <<"a", "\r">>, <<"\n", "a">> >>
    /\ emitted = << <<"a">> >>
    /\ buffer = <<"a">>

\* the enabled specs of the reload, those whose load reuses the published
\* instance, and those whose plugin module the loader finds
EnabledIds == {i \in DOMAIN reload.config : reload.config[i].enable}

ReusedIds ==
    {i \in EnabledIds : reload.config[i].skipUpdate /\ i \in DOMAIN reload.before}

OidsBefore == {reload.before[i].oid : i \in DOMAIN reload.before}

(***************************************************************************)
(* C16, as claimed: in a reload an enabled spec marked skipUpdate whose id *)
(* is published is represented by that same instance, unchanged, with no   *)
(* module load and no metadata resolution; every other enabled spec gets a *)
(* freshly built instance that replaces any prior instance with its id.    *)
(***************************************************************************)
C16_ReusedOrFreshInstance ==
    reload.stage \in {"published", "done"} =>
      \A i \in EnabledIds :
        IF i \in ReusedIds
          THEN /\ i \in DOMAIN CONSUMERS
               /\ CONSUMERS[i] = reload.before[i]
               /\ ~reload.loads[i].loaded
               /\ reload.loads[i].metadata = "none"
          ELSE /\ i \in DOMAIN CONSUMERS
               /\ CONSUMERS[i].oid \notin OidsBefore
               /\ reload.loads[i].loaded

(***************************************************************************)
(* C16, amended: a skipUpdate spec whose id is published is represented by *)
(* that same instance, unchanged, with no module load and no metadata      *)
(* resolution; every other enabled spec whose plugin module loads gets a   *)
(* freshly built instance that replaces any prior instance with its id,    *)
(* and one whose module does not load gets none (a prior instance with its *)
(* id is dropped).                                                         *)
(***************************************************************************)
C16_ReusedOrFreshWhenModuleLoads ==
    reload.stage \in {"published", "done"} =>
      \A i \in EnabledIds :
        IF i \in ReusedIds
          THEN /\ i \in DOMAIN CONSUMERS
               /\ CONSUMERS[i] = reload.before[i]
               /\ ~reload.loads[i].loaded
               /\ reload.loads[i].metadata = "none"
        ELSE IF reload.config[i].type \in MissingModules
          THEN i \notin DOMAIN CONSUMERS
          ELSE /\ i \in DOMAIN CONSUMERS
               /\ CONSUMERS[i].oid \notin OidsBefore
               /\ CONSUMERS[i].type = reload.config[i].type
               /\ reload.loads[i].loaded
               /\ reload.loads[i].metadata = "resolved"

C16_Witness ==
    /\ reload.stage = "done"
    /\ \E i \in ReusedIds : CONSUMERS[i] = reload.before[i]
    /\ \E j \in EnabledIds \ ReusedIds :
         /\ j \in DOMAIN reload.before
         /\ j \in DOMAIN CONSUMERS
         /\ CONSUMERS[j].oid # reload.before[j].oid

(***************************************************************************)
(* C17. A spec whose plugin module is missing or invalid does not abort    *)
(* the reload: its load resolves at once with no instance, and the         *)
(* published set has no instance for that spec and an instance for every   *)
(* other enabled spec whose module loads.                                  *)
(***************************************************************************)
C17_MissingModuleDropsOnlyThatSpec ==
    /\ \A i \in DOMAIN reload.loads :
         ~reload.loads[i].has => reload.loads[i].promise = "resolved"
    /\ reload.stage \in {"published", "done"} =>
         \A i \in EnabledIds :
           IF i \notin ReusedIds /\ reload.config[i].type \in MissingModules
             THEN i \notin DOMAIN CONSUMERS
             ELSE /\ i \in DOMAIN CONSUMERS
                  /\ CONSUMERS[i].id = i
                  /\ CONSUMERS[i].type = reload.config[i].type

C17_Witness ==
    /\ reload.stage = "done"
    /\ \E i \in EnabledIds :
         /\ reload.config[i].type \in MissingModules
         /\ i \in DOMAIN reload.before
         /\ i \notin DOMAIN CONSUMERS
    /\ \E j \in EnabledIds : j \in DOMAIN CONSUMERS /\ j \notin ReusedIds

(***************************************************************************)
(* C18. The set getConsumers returns changes only when every load of the   *)
(* reload has settled, in one step from the previous set to the complete   *)
(* new one: one instance per enabled spec whose module loaded (or whose    *)
(* instance is reused), none for disabled or absent specs.                 *)
(***************************************************************************)
C18_PublishedInOneStep ==
    [][ /\ reload.stage = "loading" => CONSUMERS = reload.before
        /\ CONSUMERS' # CONSUMERS =>
             /\ reload.stage = "loading"
             /\ \A i \in DOMAIN reload.loads : reload.loads[i].promise = "resolved"
             /\ DOMAIN CONSUMERS' =
                  {i \in EnabledIds :
                     i \in ReusedIds \/ reload.config[i].type \notin MissingModules}
             /\ \A i \in DOMAIN CONSUMERS' : CONSUMERS'[i] = reload.loads[i].value
      ]_vars

C18_Witness ==
    /\ reload.stage = "published"
    /\ DOMAIN CONSUMERS = ConsumerIds
    /\ DOMAIN reload.before = {"C1"}
    /\ reload.before["C1"] # CONSUMERS["C1"]

(***************************************************************************)
(* C19. Consumer reloads always complete: whatever the outcome of a        *)
(* consumer's metadata resolution, slow or failed, a reload that has begun *)
(* eventually publishes its instance set.                                  *)
(***************************************************************************)
C19_ReloadsAlwaysComplete ==
    (reload.stage = "loading") ~> (reload.stage \in {"published", "done"})

(***************************************************************************)
(* C20. A module is never unloaded while a published instance has its      *)
(* type; a reload that leaves an instance of a type published does not     *)
(* unload the type's module, and the reload that removes the last          *)
(* instance of a type unloads its module exactly once.                     *)
(***************************************************************************)
C20_ModuleUnloadedWithLastInstance ==
    /\ \A i \in DOMAIN CONSUMERS : CONSUMERS[i].type \in moduleCache
    /\ DOMAIN reload.unloaded \subseteq reload.typesBefore
    /\ reload.stage = "done" =>
         \A t \in getLoadedConsumerTypes(reload.before) :
           IF t \in getLoadedConsumerTypes(CONSUMERS)
             THEN t \notin DOMAIN reload.unloaded /\ t \in moduleCache
             ELSE /\ t \in DOMAIN reload.unloaded
                  /\ reload.unloaded[t] = 1
                  /\ t \notin moduleCache

C20_Witness ==
    /\ reload.stage = "done"
    /\ DOMAIN reload.before = ConsumerIds
    /\ \A i \in ConsumerIds : reload.before[i].type = "X"
    /\ Cardinality(DOMAIN CONSUMERS) = 1
    /\ \A i \in DOMAIN CONSUMERS : CONSUMERS[i].type = "X"
    /\ "X" \in moduleCache
    /\ reload.unloaded = Empty

\* a reload that has nothing left to do: it has completed, or it has failed
\* where it stands and no step of it is pending
ReloadAtRest ==
    \/ reload.stage \in {"idle", "done"}
    \/ /\ reload.stage = "loading"
       /\ ~LoadsSettled(reload.loads)
       /\ \A i \in DOMAIN reload.loads : reload.loads[i].metadata # "requested"

(***************************************************************************)
(* C21. After every consumer reload, completed or failed, no plugin module *)
(* stays loaded whose type no published consumer instance has.             *)
(***************************************************************************)
C21_NoUnreferencedModuleStaysLoaded ==
    ReloadAtRest => moduleCache \subseteq getLoadedConsumerTypes(CONSUMERS)

\* the destination consumer-ids a listener holds (none before it is configured)
DestinationIdsOf(l) == IF l.destinationIds = <<>> THEN {} ELSE l.destinationIds[1]

\* a step assigns listener n its destination ids
Recomputed(n) ==
    /\ n \in DOMAIN instances'
    /\ instances'[n].destinationIds # <<>>
    /\ \/ n \notin DOMAIN instances
       \/ instances'[n].destinationIds # instances[n].destinationIds

InputTracingRequested(i) == \E n \in Attached(i) : Truthy(instances[n].inputTracer)

(***************************************************************************)
(* C23. After every reconciliation, raw-data forwarding on a registered    *)
(* port is enabled if and only if at least one listener attached to that   *)
(* port has an input tracer, and a listener's raw-data hook is registered  *)
(* on its port if and only if that listener has an input tracer.           *)
(***************************************************************************)
C23_RawDataForwardingIffInputTracing ==
    phase = "idle" =>
      /\ \A p \in DOMAIN registered :
           recv[registered[p]].rawDataForwarding <=> InputTracingRequested(registered[p])
      /\ \A n \in DOMAIN instances :
           instances[n].messageStream # 0 =>
             (n \in recv[instances[n].messageStream].rawData
                <=> Truthy(instances[n].inputTracer))

(***************************************************************************)
(* C24. Detaching a listener is idempotent: detaching an attached listener *)
(* removes its message and raw-data hooks from the port and clears its     *)
(* port reference; detaching it again, or detaching a listener that was    *)
(* never attached, changes nothing; no detach raises an error.             *)
(***************************************************************************)
C24_DetachIdempotent ==
    \A n \in DOMAIN instances :
      LET H1 == detachMessageStream(Heap, n) IN
      /\ ~H1.thrown
      /\ H1.inst[n].messageStream = 0
      /\ \A i \in DOMAIN H1.recv :
           n \notin H1.recv[i].messages /\ n \notin H1.recv[i].rawData
      /\ detachMessageStream(H1, n) = H1
      /\ instances[n].messageStream = 0 => H1 = Heap

\* one listener is attached with both hooks on its port, another one was
\* attached and has been detached
C24_Witness ==
    /\ \E n \in DOMAIN instances :
         /\ instances[n].messageStream # 0
         /\ n \in recv[instances[n].messageStream].messages
         /\ n \in recv[instances[n].messageStream].rawData
    /\ \E n \in DOMAIN instances :
         /\ instances[n].messageStream = 0
         /\ instances[n].id # "undefined"

\* shutdown has begun: the callback of onApplicationExit has run
ShuttingDown == phase \in {"exit", "exited"}

\* every listener is detached and removed
C25_ListenersRemoved ==
    ShuttingDown =>
      /\ instances = Empty
      /\ \A i \in DOMAIN recv : recv[i].messages = {} /\ recv[i].rawData = {}

\* destroy is invoked on every registered receiver, and the registry keeps
\* every receiver whose destroy has not settled
C25_RegistryEmptiedAfterDestroys ==
    ShuttingDown =>
      /\ \A p \in DOMAIN registered :
           recv[registered[p]].state \in {"destroying", "destroyed", "failed"}
      /\ \A i \in DOMAIN recv :
           recv[i].state = "destroying" => \E p \in DOMAIN registered : registered[p] = i

(***************************************************************************)
(* C25. On process shutdown every listener is detached and removed,        *)
(* destroy is invoked on every registered Bound Port, the port registry is *)
(* emptied only once all destroys have settled, also when some destroy     *)
(* fails, and the exit completes only after all of it.                     *)
(***************************************************************************)
C25_ExitAfterTeardown ==
    /\ C25_ListenersRemoved
    /\ C25_RegistryEmptiedAfterDestroys
    /\ phase = "exited" => (DestroysSettled /\ registered = Empty)

(***************************************************************************)
(* C26. Reconfiguration drain: when a port is unbound because no listener  *)
(* remains attached, its socket is not closed while a read on it is in     *)
(* flight, and no event of that in-flight read is lost.                    *)
(***************************************************************************)
C26_UnbindDrainsInFlightRead ==
    \A i \in DOMAIN recv :
      (recv[i].state = "destroying" /\ ~hasListeners(recv[i], "messages")) =>
        recv[i].read \notin {"aborted", "lost"}

(***************************************************************************)
(* C27. Every record a listener hands to the Delivery Pipeline carries the *)
(* destination consumer-ids and the source id the listener has when it     *)
(* handles the event, and the record's classified category as its type, or *)
(* the default event-listener type when none was classified; events        *)
(* handled after a reconfiguration carry the new destination ids.          *)
(***************************************************************************)
C27_RecordCarriesCurrentRouting ==
    \A i \in 1..Len(calls) :
      LET ctx == calls[i]
          at == arrived[ctx.batch]
      IN  /\ ctx.destinationIds = at.destinationIds
          /\ ctx.sourceId = at.id
          /\ ctx.type = IF ctx.data.telemetryEventCategory = "undefined"
                          THEN EVENT_LISTENER
                          ELSE ctx.data.telemetryEventCategory

\* the listener was reconfigured between two batches: a classified record of
\* the first carries the old destination ids, an unclassified record of the
\* second the new ones
C27_Witness ==
    \E i, j \in 1..Len(calls) :
      /\ calls[i].batch < calls[j].batch
      /\ calls[i].destinationIds # calls[j].destinationIds
      /\ calls[j].destinationIds = listener.destinationIds
      /\ calls[i].type = "LTM"
      /\ calls[j].type = EVENT_LISTENER

\* a request of the call has failed: transport error, response other than
\* 200, or request.post throwing
DeliveryFailed == \E k \in DOMAIN azure.requests : azure.requests[k].state = "rejected"

(***************************************************************************)
(* C28. The Azure Log Analytics consumer converts an ordinary delivery     *)
(* failure to a rejected completion: a transport error or a non-200        *)
(* response on any of its requests surfaces through the promise the        *)
(* consumer returned, never as a synchronous exception.                    *)
(***************************************************************************)
C28_DeliveryFailureRejectsCompletion ==
    (azure.stage = "settled" /\ DeliveryFailed) => azure.promise = "rejected"

\* the minutes from start forward to end, around the clock
MinutesAround(start, end) ==
    ((HoursOf(end) * 60 + MinutesOf(end)) - (HoursOf(start) * 60 + MinutesOf(start))
       + 24 * 60) % (24 * 60)

DeclaredLogs(d) == has(d, "dataType") => d["dataType"] = "logs"

\* the declaration has the metrics shape as declared
DeclaredMetrics(d) == has(d, "dataType") /\ d["dataType"] = "metrics"

RECURSIVE IntegersAreStandard(_)
IntegersAreStandard(d) ==
    /\ d.t = "int" => d.n = DEFAULT_INTEGER
    /\ \A i \in DOMAIN d.a : IntegersAreStandard(d.a[i])
    /\ \A k \in DOMAIN d.o : IntegersAreStandard(d.o[k])

\* every value in d under a timestamp key that parses as a date is the
\* standard timestamp
RECURSIVE TimestampsAreStandard(_)
TimestampsAreStandard(d) ==
    /\ \A k \in DOMAIN d.o :
         (k \in TIMESTAMP_KEYS /\ d.o[k].t = "str" /\ ~DateParse(d.o[k]).nan) =>
            d.o[k].s = DEFAULT_TIMESTAMP
    /\ \A i \in DOMAIN d.a : TimestampsAreStandard(d.a[i])
    /\ \A k \in DOMAIN d.o : TimestampsAreStandard(d.o[k])

(***************************************************************************)
(* C31. After clean() runs, all integers in the input data are set to the  *)
(* standard value 0, at every nesting depth and inside every container,    *)
(* and all values under the recognised timestamp keys that parse as dates  *)
(* are set to the standard timestamp.                                      *)
(***************************************************************************)
C31_CleanResetsIntegersAndTimestamps ==
    cleaner.stage = "cleaned" =>
      /\ ~cleaner.thrown
      /\ IntegersAreStandard(cleaner.inputData)
      /\ TimestampsAreStandard(cleaner.inputData)

\* the listeners attached to receiver i after the step
AttachedNext(i) == {n \in DOMAIN instances' : instances'[n].messageStream = i}

\* the step calls destroy() on receiver i: the port is being unbound
UnbindBegins(i) ==
    /\ i \in DOMAIN recv' /\ recv'[i].state = "destroying"
    /\ (i \in DOMAIN recv => recv[i].state # "destroying")

\* the step calls restart() on receiver i: a bind attempt begins
BindBegins(i) ==
    /\ i \in DOMAIN recv' /\ recv'[i].state = "starting"
    /\ (i \in DOMAIN recv => recv[i].state # "starting")

(***************************************************************************)
(* C32. Within one reconciliation the steps run in dependency order: the   *)
(* listener removals and create-or-update steps are over before a port is  *)
(* unbound or bound (a port is unbound with the listeners of the new       *)
(* topology already in place and none of them attached to it, and no       *)
(* listener changes from then on), and every destroy of a port left        *)
(* without listeners has settled before the first bind attempt begins.     *)
(***************************************************************************)
C32_StepsInDependencyOrder ==
    [][ /\ \A i \in ObjIds : UnbindBegins(i) => AttachedNext(i) = {}
        /\ phase \in {"stopping", "starting"} => instances' = instances
        /\ \A i \in ObjIds :
             BindBegins(i) =>
               /\ phase = "stopping"
               /\ \A j \in DOMAIN recv : recv[j].state # "destroying" ]_vars

\* a pass has replaced the listeners: one port is being unbound while
\* another one, with a listener attached, waits to be bound
C32_Witness ==
    /\ phase = "stopping"
    /\ \E i \in DOMAIN recv : recv[i].state = "destroying"
    /\ StartTargets # {}

(***************************************************************************)
(* C33: if two 'change' events E1 then E2 are delivered and their consumer *)
(* reloads overlap, E1's loads settling after E2's, then once both reloads *)
(* have finished the published consumers are those computed from E2.       *)
(***************************************************************************)
BothFinished == Len(runs) = 2 /\ \A e \in DOMAIN runs : runs[e].stage = "done"

Overlapped ==
    /\ runs[2].last > 0
    /\ runs[1].last > runs[2].last
    /\ runs[1].rank > runs[2].rank

C33_LaterTopologyPublished ==
    (BothFinished /\ Overlapped) =>
       /\ CONSUMERS = getValues(runs[2].loads)
       /\ \A i \in DOMAIN CONSUMERS : CONSUMERS[i].type = runs[2].config[i].type

(***************************************************************************)
(* C34: if a consumer reload fails with an exception while building an     *)
(* instance, the consumers published before stay published unchanged, the  *)
(* failure is logged, and no module whose type one of them has is          *)
(* unloaded.                                                               *)
(***************************************************************************)
BuildFailed ==
    \E i \in DOMAIN reload.loads :
       reload.loads[i].promise = "rejected" \/ reload.loads[i].metadata = "rejected"

\* no metadata resolution of the reload is still to settle
NothingRequested ==
    \A i \in DOMAIN reload.loads : reload.loads[i].metadata # "requested"

FailureReported ==
    \/ reload.stage \in {"failed", "done"}
    \/ reload.stage = "loading" /\ LoadsSettled(reload.loads)

PreviousSetKept ==
    /\ CONSUMERS = reload.before
    /\ getLoadedConsumerTypes(reload.before) \cap DOMAIN reload.unloaded = {}
    /\ getLoadedConsumerTypes(reload.before) \subseteq moduleCache

C34_FailedReloadKeepsPublished ==
    BuildFailed =>
       /\ PreviousSetKept
       /\ NothingRequested => FailureReported

(***************************************************************************)
(* C35: between reconciliations each registered listener is attached to    *)
(* exactly one receiver, the one registered under the port of its Listener *)
(* Spec, and its message callback is on no other receiver; on a port       *)
(* change the callback leaves the old receiver before it is put on the new *)
(* one, so that in no state it is on two.                                  *)
(***************************************************************************)
BetweenReconciliations == phase \in {"idle", "done", "thrown"}

\* the receivers that hold the message callback of listener n
CallbackOn(n) == {i \in DOMAIN recv : n \in recv[i].messages}

AttachedToDeclaredPort(n) ==
    /\ instances[n].messageStream \in DOMAIN recv
    /\ CallbackOn(n) = {instances[n].messageStream}
    /\ n \in DOMAIN config
    /\ config[n].port \in DOMAIN registered
    /\ registered[config[n].port] = instances[n].messageStream

C35_AttachedToExactlyTheDeclaredPort ==
    /\ \A n \in Names : Cardinality(CallbackOn(n)) <= 1
    /\ BetweenReconciliations =>
         \A n \in DOMAIN instances : AttachedToDeclaredPort(n)

(***************************************************************************)
(* C36: a port whose bind attempts all failed stays registered while a     *)
(* listener remains attached, and the next reconciliation attempts to bind *)
(* it again: no pass ends with such a port left as it was, without a bind  *)
(* attempt of its own; a receiver that is running is not restarted.        *)
(***************************************************************************)
\* the registered ports whose receiver was stopped after its binds had failed
FailedPorts == {p \in DOMAIN registered : recv[registered[p]].state = "stopped"}

StaysRegistered(p) ==
    AttachedNext(registered[p]) # {} =>
       p \in DOMAIN registered' /\ registered'[p] = registered[p]

\* the pass that ends with this step made a bind attempt for p
AttemptedAgain(p) ==
    AttachedNext(registered[p]) # {} =>
       \/ recv'[registered[p]].state = "running"
       \/ p \in log'.rejected

C36_FailedPortRetriedRunningPortKept ==
    [][ /\ \A p \in FailedPorts : StaysRegistered(p)
        /\ (phase' \in {"done", "thrown"} /\ phase' # phase) =>
             \A p \in FailedPorts' : AttemptedAgain(p)
        /\ \A i \in DOMAIN recv :
             (recv[i].state = "running" /\ i \in DOMAIN recv') =>
                recv'[i].state # "starting" ]_vars

(***************************************************************************)
(* C37: the Azure Log Analytics consumer issues exactly one request for an *)
(* event whose type is not systemInfo, its data under the one key of the   *)
(* event's type, and exactly one request per top-level key for a           *)
(* systemInfo event; each request carries the Log-Type header and the body *)
(* of its own key, and 'success' is reported only if every request         *)
(* received status 200.                                                    *)
(***************************************************************************)
\* what is sent for key k of the data of a systemInfo event
SentForKey(k) ==
    /\ azure.requests[k].logType = <<"F5Telemetry", ToString(k)>>
    /\ azure.requests[k].body =
         [key |-> ToString(k), data |-> azure.event.data[k],
          boxed |-> azure.event.data[k] = "number"]

\* what is sent for an event of another type
SentForEvent ==
    /\ Len(azure.requests) = 1
    /\ azure.requests[1].logType = <<"F5Telemetry", azure.event.type>>
    /\ azure.requests[1].body = [key |-> azure.event.type, data |-> "object", boxed |-> FALSE]

AnsweredAsCollected(r) ==
    /\ Len(r.responses) = 1
    /\ r.collect = "resolved" =>
         r.responses[1] = [status |-> 200, body |-> <<r.value>>]
    /\ r.collect = "rejected" =>
         /\ r.responses[1].status = 500
         /\ r.responses[1].body = <<"systemStats.collect error: ", r.value>>

C38_EveryGetAnsweredExactlyOnce ==
    \A i \in DOMAIN worker.requests :
       LET r == worker.requests[i] IN
       /\ Len(r.responses) <= 1
       /\ r.stage = "done" => AnsweredAsCollected(r)
       /\ r.stage # "done" => r.responses = <<>>

C38_Witness ==
    /\ Len(worker.requests) > 1
    /\ \E i \in DOMAIN worker.requests :
         /\ worker.requests[i].stage = "done"
         /\ worker.requests[i].responses[1].status = 200
    /\ \E j \in DOMAIN worker.requests :
         /\ worker.requests[j].stage = "done"
         /\ worker.requests[j].responses[1].status = 500

====
